---- MODULE Spec2Model ----
(***************************************************************************)
(* Peer discovery and incremental synchronisation of location reports      *)
(* between mesh nodes (app/services/sync_service.py, sync_scheduler.py,    *)
(* routes/sync_routes.py).  The model follows one node, "the local node",  *)
(* its location_reports and sync_log tables, and the peers it pulls from.  *)
(***************************************************************************)
EXTENDS Integers, Sequences, FiniteSets, TLC

(***************************************************************************)
(* Bounds of the model.                                                    *)
(***************************************************************************)
MaxClock == 2
MaxReports == 2
MaxBatch == 2
MaxCalls == 2
MaxStarts == 2
MaxOrphans == 2
\* the design's pull window, in the clock's unit
WINDOW == 1
MaxLines == 2
MaxIdCalls == 3

(***************************************************************************)
(* Node identifiers and addresses.                                         *)
(***************************************************************************)
PeerA == "aa:aa:aa:aa:aa:aa"
PeerB == "bb:bb:bb:bb:bb:bb"
Peers == {PeerA, PeerB}
Me == "cc:cc:cc:cc:cc:cc"

(***************************************************************************)
(* Hardware addresses as text: hexadecimal digits, lower(), split(':'),    *)
(* int(x, 16) and the formatting of the address 169.254.o3.o4.             *)
(***************************************************************************)
LowerHex == <<"0", "1", "2", "3", "4", "5", "6", "7", "8", "9", "a", "b", "c", "d", "e", "f">>
UpperHex == <<"0", "1", "2", "3", "4", "5", "6", "7", "8", "9", "A", "B", "C", "D", "E", "F">>
IsHex(c) == \E i \in 1..16 : LowerHex[i] = c \/ UpperHex[i] = c
HexValue(c) == (CHOOSE i \in 1..16 : LowerHex[i] = c \/ UpperHex[i] = c) - 1

\* str.lower() on the characters an address is made of
LowerChar(c) == IF \E i \in 11..16 : UpperHex[i] = c
                THEN LowerHex[CHOOSE i \in 11..16 : UpperHex[i] = c] ELSE c
RECURSIVE Lower(_)
Lower(str) == IF str = "" THEN "" ELSE LowerChar(Head(str)) \o Lower(Tail(str))

\* str.replace('-', ':')
RECURSIVE DashToColon(_)
DashToColon(str) ==
    IF str = "" THEN ""
    ELSE (IF Head(str) = "-" THEN ":" ELSE Head(str)) \o DashToColon(Tail(str))

\* str.split(':')
RECURSIVE SplitColon(_, _)
SplitColon(str, part) ==
    IF str = "" THEN <<part>>
    ELSE IF Head(str) = ":" THEN <<part>> \o SplitColon(Tail(str), "")
    ELSE SplitColon(Tail(str), part \o Head(str))

\* int(part, 16) for a part of hexadecimal digits
RECURSIVE IntBase16(_, _)
IntBase16(part, acc) ==
    IF part = "" THEN acc ELSE IntBase16(Tail(part), acc * 16 + HexValue(Head(part)))

AllHex(part) == part # "" /\ \A i \in 1..Len(part) : IsHex(SubSeq(part, i, i))

ip_range_base == "169.254"

\* the mutation of the derivation: the fourth and fifth octets
calculate_ip_from_mac_shifted(mac) ==
    LET parts == SplitColon(mac, "") IN
    IF Len(parts) # 6 \/ ~AllHex(parts[4]) \/ ~AllHex(parts[5]) THEN "None"
    ELSE ip_range_base \o "." \o ToString(IntBase16(parts[4], 0))
                       \o "." \o ToString(IntBase16(parts[5], 0))

\* _calculate_ip_from_mac: "None" when the address has not six parts or a
\* part is no hexadecimal number
calculate_ip_from_mac(mac) ==
    LET parts == SplitColon(mac, "") IN
    IF Len(parts) # 6 \/ ~AllHex(parts[5]) \/ ~AllHex(parts[6]) THEN "None"
    ELSE ip_range_base \o "." \o ToString(IntBase16(parts[5], 0))
                       \o "." \o ToString(IntBase16(parts[6], 0))

FailKinds == {"Timeout connecting", "Connection error", "Request failed",
              "Failed to parse response", "Peer returned error"}

VARIABLES
    clock,        \* the local node's wall clock (ms)
    peerReports,  \* per peer: the reports it has recorded itself
    nextId,       \* the next report id (ids are never reused)
    store,        \* the local node's location_reports table
    sync_log,     \* the local node's sync_log table: peer_node_id -> row
    pc,           \* position of the running sync_with_all_peers, or "idle"
    todo,         \* peers of this cycle not yet processed, in dict order
    since,        \* the since value of the pull in flight
    resp,         \* (status_msg, data_list) returned by pull_data_from_peer
    results,      \* the summary being built by sync_with_all_peers
    wmBefore,     \* history: each peer's watermark when the cycle started
    cycleStart,   \* history: the clock when the cycle started
    outcome,      \* history: per peer, whether its pull of this cycle failed
    received,     \* history: per peer, the reports its pull returned
    pulls,        \* history: per peer, the since values of this cycle's pulls
    fresh,        \* history: the peers whose row this cycle created
    lastFail,     \* history: per peer, since of its pull if it failed last
    firstWm,      \* history: per peer, the watermark its row was created with
    saveLog,      \* history: the calls of save_location_reports and their results
    act,          \* the activities saving a batch concurrently, by position
    enabled,      \* SyncScheduler.enabled
    stop_event,   \* SyncScheduler._stop_event
    threads,      \* the background threads start() created; the last is _thread
    main,         \* the caller of start() and stop(): "idle", or "joining" in stop()
    joinAge,      \* seconds the caller has spent in _thread.join
    orphans,      \* sync cycles still running whose POST /api/sync timed out
    served,       \* the last GET /api/sync this node answered, and its answer
    disc,         \* a call of get_all_peers: its inputs and what it returned
    table_exists, \* whether the database has the sync_log table
    fault,        \* per peer, what went wrong with its pull in this cycle
    wlog,         \* history: per peer the value last written to its row, and the last read
    ident,        \* the cached node ids, the interfaces' addresses, the calls in progress
    prov,         \* reports kept with their textual ids, and the saves that stored them
    incoming,     \* a log_incoming_sync_request in progress: what its SELECT found
    target,       \* the address the cycle's current pull request went to
    caller        \* history: the last calls of start() and stop()

cycleVars == <<clock, peerReports, nextId, sync_log, pc, todo, since, resp, results>>
histVars == <<wmBefore, cycleStart, outcome, received, pulls, fresh, lastFail, firstWm>>
saveVars == <<saveLog, act>>
schedVars == <<enabled, stop_event, threads, main, joinAge, orphans>>
reqVars == <<incoming, target, caller>>
auxVars == <<wlog, ident, prov, reqVars>>
extVars == <<served, disc, table_exists, fault, auxVars>>
vars == <<store, cycleVars, histVars, saveVars, schedVars, extVars>>

NoPull == 0 - 1
NoResp == [status_msg |-> "", data_list |-> <<>>]
EmptyResults ==
    [peers_found |-> 0, peers_synced |-> 0, total_reports_pulled |-> 0,
     total_reports_saved |-> 0, total_reports_skipped |-> 0, errors |-> <<>>]

(***************************************************************************)
(* Pure parts of the code.                                                 *)
(***************************************************************************)
Max(a, b) == IF a >= b THEN a ELSE b

SetToSeqs(S) ==
    {s \in [1..Cardinality(S) -> S] : \A i, j \in 1..Cardinality(S) : i # j => s[i] # s[j]}

\* ORDER BY created_at ASC (rows of equal created_at in insertion order)
RECURSIVE OrderByCreatedAt(_)
OrderByCreatedAt(S) ==
    IF S = {} THEN <<>>
    ELSE LET m == CHOOSE r \in S : \A q \in S :
                      \/ r.created_at < q.created_at
                      \/ r.created_at = q.created_at /\ r.id <= q.id
         IN  <<m>> \o OrderByCreatedAt(S \ {m})

\* SELECT * FROM location_reports WHERE node_id = ? AND created_at > ?
get_own_data_since_windowed(rows, my_node_id, since_timestamp) ==
    OrderByCreatedAt({r \in rows : /\ r.node_id = my_node_id
                                   /\ r.created_at > since_timestamp
                                   /\ r.created_at < since_timestamp + WINDOW})
\* the mutation: the node_id condition dropped
get_own_data_since_any_node(rows, my_node_id, since_timestamp) ==
    OrderByCreatedAt({r \in rows : r.created_at > since_timestamp})
\* the same query; when it finds no row, the query with
\* LOWER(node_id) = LOWER(?) in place of node_id = ?
get_own_data_since(rows, my_node_id, since_timestamp) ==
    LET exact == {r \in rows : r.node_id = my_node_id /\ r.created_at > since_timestamp}
        any_case == {r \in rows :
                       /\ r.created_at > since_timestamp
                       /\ \/ r.node_id = my_node_id
                          \/ Lower(r.node_id) = Lower(my_node_id)}
    IN  OrderByCreatedAt(IF exact = {} THEN any_case ELSE exact)

\* sync_log lookup; 0 when the peer has no row
get_last_sync_time_zero(log, peer_node_id) == 0
get_last_sync_time(log, peer_node_id) ==
    IF peer_node_id \in DOMAIN log THEN log[peer_node_id].last_sync_at ELSE 0

\* the value update_last_sync_time writes: its own reading of the clock
NewSyncTime(old, now_ms) == now_ms

\* UPDATE the peer's row, or INSERT it when it is missing
update_last_sync_time_noop(log, peer_node_id, peer_ip, now_ms) == log
update_last_sync_time(log, peer_node_id, peer_ip, now_ms) ==
    [p \in DOMAIN log \cup {peer_node_id} |->
        IF p = peer_node_id
        THEN [last_sync_at |-> NewSyncTime(get_last_sync_time(log, p), now_ms),
              last_known_ip |-> peer_ip]
        ELSE log[p]]

\* what the loop body does to sync_log once a pull was successful: it
\* calls update_last_sync_time, whatever the pull returned
AfterSuccessfulPullFromRecords(log, peer_node_id, data_list, now_ms) ==
    [p \in DOMAIN log \cup {peer_node_id} |->
        IF p = peer_node_id
        THEN [last_sync_at |-> IF data_list = <<>> THEN 0
                               ELSE data_list[Len(data_list)].created_at,
              last_known_ip |-> calculate_ip_from_mac(p)]
        ELSE log[p]]
AfterSuccessfulPull(log, peer_node_id, data_list, now_ms) ==
    update_last_sync_time(log, peer_node_id, calculate_ip_from_mac(peer_node_id), now_ms)

\* the timestamp a row is created with when a peer is first seen
InitialSyncTimeNow(now_ms) == now_ms
InitialSyncTime(now_ms) == 0

\* INSERT a row for every discovered peer that has none; keep the others
InitSyncLogOnlyVisible(log, peers, now_ms) ==
    [p \in peers |->
        IF p \in DOMAIN log
        THEN [log[p] EXCEPT !.last_known_ip = calculate_ip_from_mac(p)]
        ELSE [last_sync_at |-> InitialSyncTime(now_ms),
              last_known_ip |-> calculate_ip_from_mac(p)]]
InitSyncLogResetting(log, peers, now_ms) ==
    [p \in DOMAIN log \cup peers |->
        IF p \in peers
        THEN [last_sync_at |-> InitialSyncTime(now_ms),
              last_known_ip |-> calculate_ip_from_mac(p)]
        ELSE log[p]]
InitSyncLog(log, peers, now_ms) ==
    [p \in DOMAIN log \cup peers |->
        IF p \in DOMAIN log
        THEN [log[p] EXCEPT !.last_known_ip = IF p \in peers THEN calculate_ip_from_mac(p) ELSE @]
        ELSE [last_sync_at |-> InitialSyncTime(now_ms),
              last_known_ip |-> calculate_ip_from_mac(p)]]

\* for peer_mac, peer_ip in peers.items(): each peer is taken once
RestRetryFailed(peers_left, successful) == IF successful THEN Tail(peers_left) ELSE peers_left
Rest(peers_left, successful) == Tail(peers_left)

ExistsId(rows, id) == \E r \in rows : r.id = id

\* is_successful = data_list or status_msg.startswith("Pulled")
IsSuccessfulAnyMessage(status_msg, data_list) ==
    data_list # <<>> \/ status_msg # ""
IsSuccessfulDataOnly(status_msg, data_list) == data_list # <<>>
IsSuccessful(status_msg, data_list) ==
    data_list # <<>> \/ status_msg = "Pulled"

\* location_reports.id is the table's primary key: an INSERT of an id that
\* is already stored raises sqlite3.IntegrityError
IntegrityError(rows, report) == ExistsId(rows, report.id)

\* LocationService.add_location: INSERT INTO location_reports, commit
add_location_latest_per_node(rows, report) ==
    IF IntegrityError(rows, report)
    THEN [rows |-> rows, integrity_error |-> TRUE]
    ELSE [rows |-> {r \in rows : r.node_id # report.node_id} \cup {report},
          integrity_error |-> FALSE]
add_location(rows, report) ==
    IF IntegrityError(rows, report)
    THEN [rows |-> rows, integrity_error |-> TRUE]
    ELSE [rows |-> rows \cup {report}, integrity_error |-> FALSE]

\* SELECT id FROM location_reports WHERE id = ?
SelectById(rows, id) == ExistsId(rows, id)

\* what the loop body counts after the INSERT was tried
InsertOutcomeAlwaysSaved(integrity_error) == "saved"
InsertOutcome(integrity_error) == IF integrity_error THEN "skipped" ELSE "saved"

\* one pass of the loop body of save_location_reports for one report
SaveStepNoContinue(rows, r) ==
    LET ins == add_location(rows, r)
    IN  [rows |-> ins.rows,
         out |-> (IF SelectById(rows, r.id) THEN <<"skipped">> ELSE <<>>)
                    \o <<InsertOutcome(ins.integrity_error)>>]
SaveStepDuplicateIsError(rows, r) ==
    IF SelectById(rows, r.id)
    THEN [rows |-> rows, out |-> <<"error">>]
    ELSE LET ins == add_location(rows, r)
         IN  [rows |-> ins.rows, out |-> <<InsertOutcome(ins.integrity_error)>>]
SaveStep(rows, r) ==
    IF SelectById(rows, r.id)
    THEN [rows |-> rows, out |-> <<"skipped">>]
    ELSE LET ins == add_location(rows, r)
         IN  [rows |-> ins.rows, out |-> <<InsertOutcome(ins.integrity_error)>>]

\* save_location_reports: the loop over the reports, in order
RECURSIVE SaveLoop(_, _, _)
SaveLoop(rows, reports, out) ==
    IF reports = <<>> THEN [rows |-> rows, out |-> out]
    ELSE LET step == SaveStep(rows, Head(reports))
         IN  SaveLoop(step.rows, Tail(reports), out \o step.out)

CountOf(out, what) == Cardinality({i \in 1..Len(out) : out[i] = what})

save_location_reports(rows, reports) ==
    LET done == SaveLoop(rows, reports, <<>>)
    IN  [rows |-> done.rows, out |-> done.out,
         saved_count |-> CountOf(done.out, "saved"),
         skipped_count |-> CountOf(done.out, "skipped")]

(***************************************************************************)
(* The initial state: empty tables, no cycle running.                      *)
(***************************************************************************)
SyncInit ==
    /\ clock = 1
    /\ peerReports = [p \in Peers |-> {}]
    /\ nextId = 1
    /\ store = {}
    /\ sync_log = <<>>
    /\ pc = "idle"
    /\ todo = <<>>
    /\ since = NoPull
    /\ resp = NoResp
    /\ results = EmptyResults
    /\ wmBefore = [p \in Peers |-> 0]
    /\ cycleStart = 0
    /\ outcome = [p \in Peers |-> "none"]
    /\ received = [p \in Peers |-> {}]
    /\ pulls = [p \in Peers |-> <<>>]
    /\ fresh = {}
    /\ lastFail = [p \in Peers |-> NoPull]
    /\ firstWm = [p \in Peers |-> NoPull]

NoActivity == [reports |-> <<>>, phase |-> "done", out |-> <<>>, given |-> <<>>, caught |-> 0]

\* SyncScheduler.__init__
SchedulerInit ==
    /\ enabled \in BOOLEAN
    /\ stop_event = FALSE
    /\ threads = <<>>
    /\ main = "idle"
    /\ joinAge = 0
    /\ orphans = 0

NotServed == [since |-> 0 - 1, until |-> 0 - 1, code |-> 0, status |-> "", data |-> <<>>]
NoDiscovery == [platform |-> "", my_node_id |-> "", tool |-> "", stdout |-> <<>>,
                returned |-> <<>>, raised |-> FALSE, calls |-> <<>>]

NoFaults == [p \in Peers |-> [reply |-> "none", storage |-> "none"]]

\* no row written, nothing read yet
NoLog == [written |-> [p \in Peers |-> NoPull],
          got |-> [peer |-> "", value |-> 0, written |-> NoPull]]

\* ClusterService.__init__ and SyncService.__init__: nothing cached
NoCall == [at |-> "idle", of |-> "", node_id |-> "", after |-> 0, probed |-> FALSE]
NoIdent == [_node_id |-> "", _my_node_id |-> "",
            address |-> [i \in {"bat0", "wlan0", "eth0"} |-> ""],
            call |-> [t \in {1, 2} |-> NoCall],
            begun |-> 0, returned |-> <<>>]

NoProv == [rows |-> {}, calls |-> <<>>]

\* no cycle has discovered peers, no pull request was sent
NoTarget == [peers |-> <<>>, peer_ip |-> ""]

\* no request is being served
NoIncoming == [at |-> "idle", peer_ip |-> "", peer_node_id |-> "", exists |-> FALSE, raised |-> ""]

AuxIdle ==
    /\ wlog = NoLog
    /\ ident = NoIdent
    /\ prov = NoProv
    /\ incoming = NoIncoming
    /\ target = NoTarget
    /\ caller = "none"

ExtIdle ==
    /\ served = NotServed
    /\ disc = NoDiscovery
    /\ table_exists = TRUE
    /\ fault = NoFaults
    /\ AuxIdle

SchedIdle ==
    /\ enabled = FALSE
    /\ stop_event = FALSE
    /\ threads = <<>>
    /\ main = "idle"
    /\ joinAge = 0
    /\ orphans = 0

Init ==
    /\ SyncInit
    /\ saveLog = <<>>
    /\ act = [i \in {1, 2} |-> NoActivity]
    /\ SchedIdle
    /\ ExtIdle

(***************************************************************************)
(* The environment: time passes, peers record reports.                     *)
(***************************************************************************)
Tick ==
    /\ clock < MaxClock
    /\ clock' = clock + 1
    /\ UNCHANGED <<peerReports, nextId, store, sync_log, pc, todo, since, resp, results>>
    /\ UNCHANGED <<histVars, saveVars, schedVars, extVars>>

\* a peer records a report of its own, stamped by its own clock, which is
\* not synchronised with the local node's
PeerRecord(p, t) ==
    /\ nextId <= MaxReports
    /\ peerReports' = [peerReports EXCEPT ![p] =
                          @ \cup {[id |-> nextId, node_id |-> p, created_at |-> t]}]
    /\ nextId' = nextId + 1
    /\ UNCHANGED <<clock, store, sync_log, pc, todo, since, resp, results>>
    /\ UNCHANGED <<histVars, saveVars, schedVars, extVars>>

(***************************************************************************)
(* sync_with_all_peers, step by step.                                      *)
(***************************************************************************)
\* get_all_peers, the summary's initialisation and the sync_log
\* initialisation; `order` is the discovered peers in the dict's order
CycleStart(order) ==
    LET peers == {order[i] : i \in 1..Len(order)} IN
    /\ pc = "idle"
    /\ pc' = "loop"
    /\ todo' = order
    /\ results' = [EmptyResults EXCEPT !.peers_found = Len(order)]
    /\ sync_log' = IF table_exists THEN InitSyncLog(sync_log, peers, clock) ELSE sync_log
    /\ since' = NoPull
    /\ resp' = NoResp
    /\ wmBefore' = [p \in Peers |-> get_last_sync_time(sync_log, p)]
    /\ cycleStart' = clock
    /\ outcome' = [p \in Peers |-> "none"]
    /\ received' = [p \in Peers |-> {}]
    /\ pulls' = [p \in Peers |-> <<>>]
    /\ fresh' = peers \ DOMAIN sync_log
    /\ firstWm' = [p \in Peers |->
                     IF p \in peers /\ p \notin DOMAIN sync_log
                     THEN get_last_sync_time(sync_log', p) ELSE firstWm[p]]
    /\ UNCHANGED <<clock, peerReports, nextId, store, lastFail>>

StartCycle(order) == CycleStart(order) /\ UNCHANGED <<saveVars, schedVars, extVars>>

\* get_last_sync_time, then the request of pull_data_from_peer, answered
\* by the peer with its own reports newer than since
PullAnswered ==
    /\ pc = "loop" /\ todo # <<>>
    /\ LET p == Head(todo)
           last_sync == get_last_sync_time(sync_log, p)
           data == get_own_data_since(peerReports[p], p, last_sync)
       IN  /\ since' = last_sync
           /\ resp' = [status_msg |-> "Pulled", data_list |-> data]
           /\ received' = [received EXCEPT ![p] = {data[i] : i \in 1..Len(data)}]
           /\ pulls' = [pulls EXCEPT ![p] = Append(@, last_sync)]
    /\ pc' = "pulled"
    /\ UNCHANGED <<clock, peerReports, nextId, store, sync_log, todo, results>>
    /\ UNCHANGED <<wmBefore, cycleStart, outcome, fresh, lastFail, firstWm>>
    /\ UNCHANGED <<saveVars, schedVars, extVars>>

\* get_last_sync_time, then a pull_data_from_peer that ends in an error
PullFailed(kind) ==
    /\ pc = "loop" /\ todo # <<>>
    /\ LET p == Head(todo)
           last_sync == get_last_sync_time(sync_log, p)
       IN  /\ since' = last_sync
           /\ resp' = [status_msg |-> kind, data_list |-> <<>>]
           /\ pulls' = [pulls EXCEPT ![p] = Append(@, last_sync)]
    /\ pc' = "pulled"
    /\ UNCHANGED <<clock, peerReports, nextId, store, sync_log, todo, results>>
    /\ UNCHANGED <<wmBefore, cycleStart, outcome, received, fresh, lastFail, firstWm>>
    /\ UNCHANGED <<saveVars, schedVars, extVars>>

\* the rest of the loop body: save and update on success, an error otherwise
HandlePull ==
    /\ pc = "pulled"
    /\ LET p == Head(todo)
           saved == save_location_reports(store, resp.data_list)
       IN  IF IsSuccessful(resp.status_msg, resp.data_list)
           THEN /\ store' = saved.rows
                /\ results' = [results EXCEPT
                      !.total_reports_pulled = @ + Len(resp.data_list),
                      !.total_reports_saved = @ + saved.saved_count,
                      !.total_reports_skipped = @ + saved.skipped_count,
                      !.peers_synced = @ + 1]
                /\ sync_log' = AfterSuccessfulPull(sync_log, p, resp.data_list, clock)
           ELSE /\ results' = [results EXCEPT
                      !.errors = Append(@, p)]
                /\ UNCHANGED <<store, sync_log>>
    /\ outcome' = [outcome EXCEPT ![Head(todo)] =
                      IF resp.status_msg \in FailKinds THEN "fail" ELSE "ok"]
    /\ lastFail' = [lastFail EXCEPT ![Head(todo)] =
                      IF resp.status_msg \in FailKinds THEN since ELSE NoPull]
    /\ todo' = Rest(todo, IsSuccessful(resp.status_msg, resp.data_list))
    /\ pc' = "loop"
    /\ since' = NoPull
    /\ resp' = NoResp
    /\ UNCHANGED <<clock, peerReports, nextId>>
    /\ UNCHANGED <<wmBefore, cycleStart, received, pulls, fresh, firstWm>>
    /\ UNCHANGED <<saveVars, schedVars, extVars>>

\* return results (the summary and the cycle's history end with the cycle)
CycleEnd ==
    /\ pc = "loop" /\ todo = <<>>
    /\ pc' = "idle"
    /\ results' = EmptyResults
    /\ wmBefore' = [p \in Peers |-> 0]
    /\ cycleStart' = 0
    /\ outcome' = [p \in Peers |-> "none"]
    /\ received' = [p \in Peers |-> {}]
    /\ pulls' = [p \in Peers |-> <<>>]
    /\ fresh' = {}
    /\ UNCHANGED <<clock, peerReports, nextId, store, sync_log, todo, since, resp>>
    /\ UNCHANGED <<lastFail, firstWm>>

EndCycle == CycleEnd /\ UNCHANGED <<saveVars, schedVars, extVars>>

Next ==
    \/ Tick
    \/ \E p \in Peers, t \in 1..MaxClock : PeerRecord(p, t)
    \/ \E S \in SUBSET Peers : \E order \in SetToSeqs(S) : StartCycle(order)
    \/ PullAnswered
    \/ \E kind \in FailKinds : PullFailed(kind)
    \/ HandlePull
    \/ EndCycle

Spec == Init /\ [][Next]_vars

(***************************************************************************)
(* Properties of the sync cycle, checked under Spec.                       *)
(***************************************************************************)
Wm(p) == get_last_sync_time(sync_log, p)
CycleDone == pc = "loop" /\ todo = <<>>
ErrorsFor(p) == Cardinality({i \in 1..Len(results.errors) : results.errors[i] = p})
MaxCreatedAt(S) == CHOOSE t \in {r.created_at : r \in S} : \A r \in S : r.created_at <= t

\* C1: no gap: every report a peer originated with a created_at above the
\* watermark of first contact and at or below the peer's stored watermark
\* is in the local store.
C1_NoGap ==
    \A p \in Peers : \A r \in peerReports[p] :
        (firstWm[p] # NoPull /\ r.created_at > firstWm[p] /\ r.created_at <= Wm(p))
            => r \in store

\* C3: peer isolation: when a cycle's pull from A failed and its pull from
\* B succeeded, B's records are stored, B's watermark has moved to a time of
\* this cycle, A's watermark is the one the cycle started with, and the
\* summary lists exactly one error; in either order of A and B.
C3_PeerIsolation ==
    \A a, b \in Peers :
        (CycleDone /\ outcome[a] = "fail" /\ outcome[b] = "ok") =>
            /\ received[b] \subseteq store
            /\ Wm(b) >= cycleStart /\ Wm(b) >= wmBefore[b]
            /\ Wm(a) = wmBefore[a]
            /\ Len(results.errors) = 1
            /\ results.peers_synced = 1

C3_Witness ==
    /\ CycleDone
    /\ outcome[PeerA] = "fail" /\ outcome[PeerB] = "ok"
    /\ received[PeerB] # {} /\ Wm(PeerB) > wmBefore[PeerB] /\ wmBefore[PeerA] > 0

\* C4: a failed pull leaves the peer's watermark as it was before the
\* cycle and records one error for the peer, and the next pull issued for
\* the peer uses the same since value as the failed one.
C4_FailedPullKeepsWatermark ==
    /\ \A p \in Peers : outcome[p] = "fail" => (Wm(p) = wmBefore[p] /\ ErrorsFor(p) = 1)
    /\ (pc = "pulled" /\ lastFail[Head(todo)] # NoPull) => since = lastFail[Head(todo)]

C4_Witness ==
    /\ pc = "pulled" /\ lastFail[Head(todo)] > 0 /\ since = lastFail[Head(todo)]
    /\ ~IsSuccessful(resp.status_msg, resp.data_list)

\* C5: while a peer's pulls return zero records its watermark never
\* decreases, and handling such a pull adds nothing to the summary's
\* total_reports_pulled and total_reports_saved.
C5_EmptyPullsMonotone ==
    [][ /\ \A p \in Peers : get_last_sync_time(sync_log', p) >= Wm(p)
        /\ (pc = "pulled" /\ pc' = "loop" /\ resp.data_list = <<>>) =>
              /\ results'.total_reports_pulled = results.total_reports_pulled
              /\ results'.total_reports_saved = results.total_reports_saved ]_vars

C5_Witness ==
    \E p \in Peers :
        /\ outcome[p] = "ok" /\ received[p] = {}
        /\ wmBefore[p] > 0 /\ Wm(p) > wmBefore[p]
        /\ results.total_reports_pulled = 0

\* C8 as claimed: the row of a peer seen for the first time is created with
\* the current time as its watermark.
C8_FirstContactNow ==
    \A p \in fresh : outcome[p] = "none" => Wm(p) = cycleStart

\* C8 amended: the row of a peer seen for the first time is created with
\* watermark 0, and the first pull issued to it asks for everything
\* (since = 0).
C8_FirstContactZero ==
    /\ \A p \in fresh : outcome[p] = "none" => Wm(p) = 0
    /\ \A p \in Peers : firstWm[p] \in {NoPull, 0}
    /\ (pc = "pulled" /\ Head(todo) \in fresh) => since = 0

C8_Witness ==
    pc = "pulled" /\ Head(todo) \in fresh /\ since = 0 /\ Len(resp.data_list) > 0

\* C9: after a successful pull that returned records, the
\* peer's watermark is the greatest created_at among them.
C9_WatermarkIsMaxCreatedAt ==
    \A p \in Peers :
        (outcome[p] = "ok" /\ received[p] # {}) => Wm(p) = MaxCreatedAt(received[p])

\* C10 as claimed: in a cycle every processed peer gets a backward pull in
\* addition to the forward pull.
C10_ForwardAndBackwardPull ==
    CycleDone => \A p \in Peers : outcome[p] # "none" => Len(pulls[p]) = 2

\* C10 amended: in a cycle every discovered peer gets exactly one pull, the
\* forward pull from last_sync_at, and a sync_log row holds one watermark.
C10_ForwardPullOnly ==
    /\ \A p \in Peers : Len(pulls[p]) <= 1
    /\ CycleDone => \A p \in Peers : Len(pulls[p]) = IF outcome[p] # "none" THEN 1 ELSE 0
    /\ CycleDone => results.peers_found = Cardinality({p \in Peers : Len(pulls[p]) = 1})
    /\ \A p \in DOMAIN sync_log : DOMAIN sync_log[p] = {"last_sync_at", "last_known_ip"}

C10_Witness ==
    CycleDone /\ \A p \in Peers : Len(pulls[p]) = 1 /\ pulls[p][1] > 0

(***************************************************************************)
(* save_location_reports on its own: called any number of times with any   *)
(* batches, from any peer (SaveSpec).                                      *)
(***************************************************************************)
SaveReports ==
    {[id |-> i, node_id |-> IF i % 2 = 1 THEN PeerA ELSE PeerB, created_at |-> 1] :
        i \in 1..MaxReports}
Batches == UNION {[1..n -> SaveReports] : n \in 0..MaxBatch}

SaveCall(p, batch) ==
    /\ Len(saveLog) < MaxCalls
    /\ LET done == save_location_reports(store, batch)
       IN  /\ store' = done.rows
           /\ saveLog' = Append(saveLog,
                 [peer |-> p, reports |-> batch, out |-> done.out,
                  saved_count |-> done.saved_count,
                  skipped_count |-> done.skipped_count])
    /\ UNCHANGED <<cycleVars, histVars, act, schedVars, extVars>>

SaveNext == \E p \in Peers, batch \in Batches : SaveCall(p, batch)

SaveSpec == Init /\ [][SaveNext]_vars

\* the reports given to the calls so far with what each was counted as, in order
RECURSIVE Occurrences(_)
Occurrences(log) ==
    IF log = <<>> THEN <<>>
    ELSE LET c == log[Len(log)]
         IN  Occurrences(SubSeq(log, 1, Len(log) - 1)) \o
                 [k \in 1..Len(c.reports) |->
                     [id |-> c.reports[k].id,
                      out |-> IF k <= Len(c.out) THEN c.out[k] ELSE "none"]]

RowsWithId(id) == {r \in store : r.id = id}

\* C2: merge is idempotent: whatever calls were made, every report given
\* to one of them is stored in exactly one row, its first occurrence was
\* counted as saved and every later one as skipped.
C2_MergeIdempotent ==
    LET occ == Occurrences(saveLog) IN
    /\ \A i \in 1..Len(saveLog) :
          /\ Len(saveLog[i].out) = Len(saveLog[i].reports)
          /\ saveLog[i].saved_count + saveLog[i].skipped_count = Len(saveLog[i].reports)
    /\ \A k \in 1..Len(occ) :
          /\ Cardinality(RowsWithId(occ[k].id)) = 1
          /\ occ[k].out = IF \E j \in 1..(k - 1) : occ[j].id = occ[k].id
                          THEN "skipped" ELSE "saved"

\* the same report within one call, in a later call, and from another peer
C2_Witness ==
    /\ Len(saveLog) = 2
    /\ saveLog[1].peer # saveLog[2].peer
    /\ saveLog[1].out = <<"saved", "skipped">>
    /\ saveLog[2].reports # <<>> /\ saveLog[2].reports[1] = saveLog[1].reports[1]
    /\ saveLog[2].skipped_count = Len(saveLog[2].reports)

(***************************************************************************)
(* Two activities inside save_location_reports at the same time, and the   *)
(* local node recording reports of its own meanwhile (ConcSpec).           *)
(***************************************************************************)
ConcInit ==
    /\ SyncInit
    /\ saveLog = <<>>
    /\ act \in [{1, 2} -> {[reports |-> b, phase |-> IF b = <<>> THEN "done" ELSE "check",
                            out |-> <<>>, given |-> b, caught |-> 0] : b \in Batches}]
    /\ SchedIdle
    /\ ExtIdle

Advance(a, what, integrity_error) ==
    [a EXCEPT !.out = Append(@, what),
              !.reports = Tail(@),
              !.phase = IF Tail(a.reports) = <<>> THEN "done" ELSE "check",
              !.caught = IF integrity_error THEN @ + 1 ELSE @]

\* the SELECT by id of the loop body
ConcCheck(i) ==
    /\ act[i].phase = "check"
    /\ act' = [act EXCEPT ![i] =
                  IF SelectById(store, Head(@.reports).id)
                  THEN Advance(@, "skipped", FALSE)
                  ELSE [@ EXCEPT !.phase = "insert"]]
    /\ UNCHANGED <<store, cycleVars, histVars, saveLog, schedVars, extVars>>

\* the INSERT of the loop body, with its handler for IntegrityError
ConcInsert(i) ==
    /\ act[i].phase = "insert"
    /\ LET ins == add_location(store, Head(act[i].reports))
       IN  /\ store' = ins.rows
           /\ act' = [act EXCEPT ![i] =
                         Advance(@, InsertOutcome(ins.integrity_error), ins.integrity_error)]
    /\ UNCHANGED <<cycleVars, histVars, saveLog, schedVars, extVars>>

\* POST /api/locations: a new report of the local node, with a fresh uuid4
LocalInsert ==
    /\ nextId <= MaxReports
    /\ store' = add_location(store, [id |-> MaxReports + nextId, node_id |-> Me,
                                     created_at |-> clock]).rows
    /\ nextId' = nextId + 1
    /\ UNCHANGED <<clock, peerReports, sync_log, pc, todo, since, resp, results>>
    /\ UNCHANGED <<histVars, saveVars, schedVars, extVars>>

ConcNext ==
    \/ \E i \in {1, 2} : ConcCheck(i)
    \/ \E i \in {1, 2} : ConcInsert(i)
    \/ LocalInsert

ConcSpec == ConcInit /\ [][ConcNext]_vars

AllDone == \A i \in {1, 2} : act[i].phase = "done"
GivenIds == UNION {{act[i].given[k].id : k \in 1..Len(act[i].given)} : i \in {1, 2}}
CountedAs(id, what) ==
    Cardinality({<<i, k>> \in {1, 2} \X (1..MaxBatch + 1) :
                    /\ k <= Len(act[i].out) /\ k <= Len(act[i].given)
                    /\ act[i].given[k].id = id /\ act[i].out[k] = what})
GivenTimes(id) ==
    Cardinality({<<i, k>> \in {1, 2} \X (1..MaxBatch + 1) :
                    k <= Len(act[i].given) /\ act[i].given[k].id = id})

\* C7: however two activities interleave their check and insert steps for
\* the same report id, one copy is stored, one occurrence is counted as
\* saved and every other as skipped, and both activities go through their
\* whole batch.
C7_ConcurrentInsertIfAbsent ==
    /\ \A r \in store : Cardinality(RowsWithId(r.id)) = 1
    /\ AllDone =>
          /\ \A i \in {1, 2} : Len(act[i].out) = Len(act[i].given)
          /\ \A id \in GivenIds :
                /\ Cardinality(RowsWithId(id)) = 1
                /\ CountedAs(id, "saved") = 1
                /\ CountedAs(id, "skipped") = GivenTimes(id) - 1

\* both passed the check before either inserted
C7_Witness ==
    /\ AllDone
    /\ \E i \in {1, 2} : act[i].caught > 0
    /\ \E r \in store : r.node_id = Me

(***************************************************************************)
(* The scheduler: start(), stop() and the background loop that triggers    *)
(* POST /api/sync, whose handler runs sync_with_all_peers on a thread of   *)
(* the server (SchedSpec).  Time is counted in seconds.                    *)
(***************************************************************************)
interval_seconds == 10
StartupSleep == 2
PostTimeout == 30
JoinTimeout == 5

NewThread == [at |-> "startup", t |-> 0]
Alive(th) == th.at # "exited"
\* self._thread and self._thread.is_alive()
ThreadAliveNever == FALSE
ThreadAlive == threads # <<>> /\ Alive(threads[Len(threads)])
AliveThreads == {i \in 1..Len(threads) : Alive(threads[i])}
Posting == {i \in 1..Len(threads) : threads[i].at = "post"}
\* executions of sync_with_all_peers in progress on the server
RunningCycles == orphans + Cardinality(Posting)

\* the wait loop's test: while waited < interval_seconds and not stop
WaitOrTop(waited, stopped) ==
    IF waited < interval_seconds /\ ~stopped
    THEN [at |-> "wait", t |-> waited] ELSE [at |-> "top", t |-> 0]

\* start()
Start ==
    /\ main = "idle"
    /\ enabled
    /\ ~ThreadAlive
    /\ Len(threads) < MaxStarts
    /\ stop_event' = FALSE
    /\ threads' = Append(threads, NewThread)
    /\ UNCHANGED <<enabled, main, joinAge, orphans>>
    /\ UNCHANGED <<store, cycleVars, histVars, saveVars, extVars>>

\* stop(), up to the call of join
Stop ==
    /\ main = "idle"
    /\ ThreadAlive
    /\ stop_event' = TRUE
    /\ main' = "joining"
    /\ joinAge' = 0
    /\ UNCHANGED <<enabled, threads, orphans>>
    /\ UNCHANGED <<store, cycleVars, histVars, saveVars, extVars>>

\* join(timeout=5) returns: the thread has ended, or five seconds are over
JoinReturns ==
    /\ main = "joining"
    /\ ~ThreadAlive \/ joinAge = JoinTimeout
    /\ main' = "idle"
    /\ joinAge' = 0
    /\ UNCHANGED <<enabled, stop_event, threads, orphans>>
    /\ UNCHANGED <<store, cycleVars, histVars, saveVars, extVars>>

\* time.sleep(2) is over
StartupDone(i) ==
    /\ threads[i].at = "startup" /\ threads[i].t = StartupSleep
    /\ threads' = [threads EXCEPT ![i] = [at |-> "top", t |-> 0]]
    /\ UNCHANGED <<enabled, stop_event, main, joinAge, orphans>>
    /\ UNCHANGED <<store, cycleVars, histVars, saveVars, extVars>>

\* while not self._stop_event.is_set(): requests.post(sync_url, timeout=30);
\* the server starts trigger_sync, that is a sync cycle
Trigger(i) ==
    /\ threads[i].at = "top"
    /\ ~stop_event
    /\ threads' = [threads EXCEPT ![i] = [at |-> "post", t |-> 0]]
    /\ UNCHANGED <<enabled, stop_event, main, joinAge, orphans>>
    /\ UNCHANGED <<store, cycleVars, histVars, saveVars, extVars>>

\* the loop's condition is false: the thread ends
LoopExit(i) ==
    /\ threads[i].at = "top"
    /\ stop_event
    /\ threads' = [threads EXCEPT ![i] = [at |-> "exited", t |-> 0]]
    /\ UNCHANGED <<enabled, stop_event, main, joinAge, orphans>>
    /\ UNCHANGED <<store, cycleVars, histVars, saveVars, extVars>>

\* the cycle ends and trigger_sync answers within the timeout
Answered(i) ==
    /\ threads[i].at = "post"
    /\ threads' = [threads EXCEPT ![i] = WaitOrTop(0, stop_event)]
    /\ UNCHANGED <<enabled, stop_event, main, joinAge, orphans>>
    /\ UNCHANGED <<store, cycleVars, histVars, saveVars, extVars>>

\* no answer within 30 seconds: requests raises Timeout, the loop prints it
\* and goes on to wait; the handler on the server goes on with its cycle
TimedOut(i) ==
    /\ threads[i].at = "post" /\ threads[i].t = PostTimeout
    /\ orphans < MaxOrphans
    /\ threads' = [threads EXCEPT ![i] = WaitOrTop(0, stop_event)]
    /\ orphans' = orphans + 1
    /\ UNCHANGED <<enabled, stop_event, main, joinAge>>
    /\ UNCHANGED <<store, cycleVars, histVars, saveVars, extVars>>

\* a cycle whose trigger had timed out ends
OrphanEnds ==
    /\ orphans > 0
    /\ orphans' = orphans - 1
    /\ UNCHANGED <<enabled, stop_event, threads, main, joinAge>>
    /\ UNCHANGED <<store, cycleVars, histVars, saveVars, extVars>>

\* nothing is due: one second passes for every sleeper and waiter
Due(th) ==
    \/ th.at = "top"
    \/ th.at = "startup" /\ th.t = StartupSleep
    \/ th.at = "post" /\ th.t = PostTimeout

AfterSecond(th) ==
    CASE th.at = "startup" -> [th EXCEPT !.t = @ + 1]
      [] th.at = "post"    -> [th EXCEPT !.t = @ + 1]
      [] th.at = "wait"    -> WaitOrTop(th.t + 1, stop_event)
      [] OTHER             -> th

Second ==
    /\ AliveThreads # {}
    /\ \A i \in 1..Len(threads) : ~Due(threads[i])
    /\ main = "joining" => (ThreadAlive /\ joinAge < JoinTimeout)
    /\ threads' = [i \in 1..Len(threads) |-> AfterSecond(threads[i])]
    /\ joinAge' = IF main = "joining" THEN joinAge + 1 ELSE joinAge
    /\ UNCHANGED <<enabled, stop_event, main, orphans>>
    /\ UNCHANGED <<store, cycleVars, histVars, saveVars, extVars>>

SchedNext ==
    \/ Start
    \/ Stop
    \/ JoinReturns
    \/ \E i \in 1..Len(threads) : StartupDone(i)
    \/ \E i \in 1..Len(threads) : Trigger(i)
    \/ \E i \in 1..Len(threads) : LoopExit(i)
    \/ \E i \in 1..Len(threads) : Answered(i)
    \/ \E i \in 1..Len(threads) : TimedOut(i)
    \/ OrphanEnds
    \/ Second

SchedInit ==
    /\ SyncInit
    /\ saveLog = <<>>
    /\ act = [i \in {1, 2} |-> NoActivity]
    /\ SchedulerInit
    /\ ExtIdle

SchedSpec == SchedInit /\ [][SchedNext]_vars

\* C6: sync cycles never overlap: at no time are two executions of
\* sync_with_all_peers in progress on the node.
C6_CyclesNeverOverlap == RunningCycles <= 1

(***************************************************************************)
(* The extent of a pull, checked under Spec.                               *)
(***************************************************************************)
AnswerSet == {resp.data_list[i] : i \in 1..Len(resp.data_list)}

get_own_data_since_params == 1

\* the arguments the route passes to get_own_data_since
RouteArguments(since_arg, until) == <<since_arg, until>>

\* Python's call of the method with positional arguments args
CallGetOwnDataSince(rows, my_node_id, args) ==
    IF Len(args) = get_own_data_since_params
    THEN [raised |-> "", value |-> get_own_data_since(rows, my_node_id, args[1])]
    ELSE [raised |-> "TypeError", value |-> <<>>]

\* the row of the requesting peer is created with 0 or gets the peer's IP;
\* a requester that is no visible peer is not logged
log_incoming_sync_request(log, peers, peer_ip) ==
    LET macs == {m \in peers : calculate_ip_from_mac(m) = peer_ip} IN
    IF macs = {} THEN log
    ELSE LET peer_node_id == CHOOSE m \in macs : TRUE IN
         [p \in DOMAIN log \cup {peer_node_id} |->
            IF p # peer_node_id THEN log[p]
            ELSE IF p \in DOMAIN log THEN [log[p] EXCEPT !.last_known_ip = peer_ip]
            ELSE [last_sync_at |-> 0, last_known_ip |-> peer_ip]]

\* the route's answer: the data on success, status error with code 500 when
\* the call raised
get_sync_data(rows, my_node_id, since_arg, now_ms) ==
    LET until == now_ms
        call == CallGetOwnDataSince(rows, my_node_id, RouteArguments(since_arg, until))
    IN  IF call.raised = ""
        THEN [since |-> since_arg, until |-> until, code |-> 200,
              status |-> "success", data |-> call.value]
        ELSE [since |-> since_arg, until |-> until, code |-> 500,
              status |-> "error", data |-> <<>>]

RequesterIps == {calculate_ip_from_mac(p) : p \in Peers} \cup {"127.0.0.1"}

GetSyncData(since_arg, peer_ip, visible) ==
    /\ sync_log' = log_incoming_sync_request(sync_log, visible, peer_ip)
    /\ served' = get_sync_data(store, Me, since_arg, clock)
    /\ UNCHANGED <<clock, peerReports, nextId, store, pc, todo, since, resp, results>>
    /\ UNCHANGED <<histVars, saveVars, schedVars, disc, table_exists, fault, auxVars>>

ServeNext ==
    \/ Tick
    \/ LocalInsert
    \/ \E p \in Peers, batch \in Batches : SaveCall(p, batch)
    \/ \E since_arg \in 0..MaxClock, peer_ip \in RequesterIps, visible \in SUBSET Peers :
          GetSyncData(since_arg, peer_ip, visible)

ServeSpec == Init /\ [][ServeNext]_vars

OwnNewerThan(t) == {r \in store : r.node_id = Me /\ r.created_at > t}

\* C12: boundary exactness: a served pull with bounds from = since and
\* to = until leaves out the node's own reports whose created_at equals from
\* and contains those whose created_at equals to.
C12_BoundaryExactness ==
    [][ served' # served =>
          \A r \in {q \in store : q.node_id = Me} :
             LET answer == {served'.data[i] : i \in 1..Len(served'.data)} IN
             /\ r.created_at = served'.since => r \notin answer
             /\ r.created_at = served'.until => r \in answer ]_vars

\* C13: a GET on the sync endpoint with an integer since is answered with
\* status success and exactly the node's own reports newer than since.
C13_ServedPullSucceeds ==
    [][ served' # served =>
          /\ served'.status = "success"
          /\ {served'.data[i] : i \in 1..Len(served'.data)} = OwnNewerThan(served'.since) ]_vars

(***************************************************************************)
(* Peer discovery: get_all_peers on the output of `sudo batctl o`, and     *)
(* the derivation of a peer's IP from its hardware address (DiscSpec).     *)
(* A line of the output is the sequence of its words.                      *)
(***************************************************************************)
Platforms == {"Windows", "Linux"}
OwnUpper == "CC:CC:CC:CC:CC:CC"
NodeIds == {Me, OwnUpper, "AA:AA:AA:AA:AA:AA"}

\* how the run of the routing tool ends
ToolFailures == {"FileNotFoundError", "CalledProcessError", "TimeoutExpired", "PermissionError"}
ToolOutcomes == {"ok"} \cup ToolFailures

OutputLines ==
    { <<>>,
      <<"[B.A.T.M.A.N.", "adv", "MainIF/MAC:", "wlan0/cc:cc:cc:cc:cc:cc">>,
      <<"Originator", "last-seen", "Nexthop">>,
      <<"*", PeerA, "0.610s", "(255)", PeerA>>,
      <<"bb-bb-bb-bb-bb-bb", "0.420s", "(230)", PeerA>>,
      <<"*", "02:00:00:00:aa:aa", "0.300s", "(200)", PeerA>>,
      <<"*", Me, "0.100s", "(255)", Me>>,
      <<"*", OwnUpper, "0.100s", "(255)", OwnUpper>> }
Outputs == UNION {[1..n -> OutputLines] : n \in 0..MaxLines}

\* ([0-9a-fA-F]{2}[:-]){5}([0-9a-fA-F]{2}) on a word
IsMac(word) ==
    /\ Len(word) = 17
    /\ \A i \in 1..17 : IF i % 3 = 0 THEN SubSeq(word, i, i) \in {":", "-"}
                        ELSE IsHex(SubSeq(word, i, i))

\* mac_pattern.search(line).group(0): the first address of the line, or ""
RECURSIVE FirstMac(_)
FirstMac(line) ==
    IF line = <<>> THEN ""
    ELSE IF IsMac(Head(line)) THEN Head(line) ELSE FirstMac(Tail(line))

HasWord(line, word) == \E i \in 1..Len(line) : line[i] = word

\* peers[peer_mac] = peer_ip on a dict that keeps the order of insertion
DictPut(d, k, v) ==
    IF \E i \in 1..Len(d) : d[i].mac = k
    THEN [i \in 1..Len(d) |-> IF d[i].mac = k THEN [mac |-> k, ip |-> v] ELSE d[i]]
    ELSE Append(d, [mac |-> k, ip |-> v])

\* if peer_mac == my_node_id: continue
IsOwnId(peer_mac, my_node_id) == peer_mac = my_node_id

\* the loop over the lines of the output
RECURSIVE ParseLines(_, _, _)
ParseLines(lines, my_node_id, peers) ==
    IF lines = <<>> THEN peers
    ELSE LET line == Head(lines)
             peer_mac == Lower(DashToColon(FirstMac(line)))
             peer_ip == calculate_ip_from_mac(peer_mac)
             skip == \/ line = <<>>
                     \/ HasWord(line, "Originator") /\ HasWord(line, "last-seen")
                     \/ Head(line) = "[B.A.T.M.A.N."
                     \/ FirstMac(line) = ""
                     \/ IsOwnId(peer_mac, my_node_id)
                     \/ peer_ip = "None"
         IN  ParseLines(Tail(lines), my_node_id,
                        IF skip THEN peers ELSE DictPut(peers, peer_mac, peer_ip))

MockPeers == << [mac |-> PeerA, ip |-> "169.254.170.170"],
                [mac |-> PeerB, ip |-> "169.254.187.187"] >>

\* except FileNotFoundError, except subprocess.CalledProcessError, except Exception
CaughtOnlyNamed(tool) == tool \in {"FileNotFoundError", "CalledProcessError"}
Caught(tool) == tool \in {"FileNotFoundError", "CalledProcessError"} \/ tool \in ToolFailures

\* get_all_peers: the peer map as the list of its items, and whether the
\* call raised
get_all_peers(platform, my_node_id, tool, stdout) ==
    IF platform = "Windows" THEN [returned |-> MockPeers, raised |-> FALSE]
    ELSE IF tool # "ok" THEN [returned |-> <<>>, raised |-> ~Caught(tool)]
    ELSE [returned |-> ParseLines(stdout, my_node_id, <<>>), raised |-> FALSE]

Keys(d) == {d[i].mac : i \in 1..Len(d)}

MacSamples == {"aa:bb:cc:dd:11:22", "AA:BB:CC:DD:FF:0A", "00:00:00:00:00:00", PeerA, PeerB}

DiscInit ==
    /\ SyncInit
    /\ saveLog = <<>>
    /\ act = [i \in {1, 2} |-> NoActivity]
    /\ SchedIdle
    /\ served = NotServed
    /\ table_exists = TRUE
    /\ fault = NoFaults
    /\ AuxIdle
    /\ \E platform \in Platforms, my_node_id \in NodeIds :
          disc = [NoDiscovery EXCEPT !.platform = platform, !.my_node_id = my_node_id]

GetAllPeers(tool, stdout) ==
    /\ disc.tool = ""
    /\ tool = "ok" \/ stdout = <<>>
    /\ LET got == get_all_peers(disc.platform, disc.my_node_id, tool, stdout)
       IN  disc' = [disc EXCEPT !.tool = tool, !.stdout = stdout,
                                !.returned = got.returned, !.raised = got.raised]
    /\ UNCHANGED <<store, cycleVars, histVars, saveVars, schedVars, served, table_exists, fault, auxVars>>

CalculateIp(mac) ==
    /\ Len(disc.calls) < MaxCalls
    /\ disc' = [disc EXCEPT !.calls = Append(@, [mac |-> mac, ip |-> calculate_ip_from_mac(mac)])]
    /\ UNCHANGED <<store, cycleVars, histVars, saveVars, schedVars, served, table_exists, fault, auxVars>>

DiscNext ==
    \/ \E tool \in ToolOutcomes, stdout \in Outputs : GetAllPeers(tool, stdout)
    \/ \E mac \in MacSamples : CalculateIp(mac)

DiscSpec == DiscInit /\ [][DiscNext]_vars

\* C14: self-exclusion: no key of the map get_all_peers returned is the
\* local node's own address, in whatever letter case the local id is held
\* and on either platform branch.
C14_SelfExclusion ==
    \A k \in Keys(disc.returned) : Lower(k) # Lower(disc.my_node_id)

\* C15: the derived IP is 169.254 followed by the decimal values of the
\* fifth and sixth octets, and an address gets the same IP in every call.
ExpectedIp(mac) ==
    CASE mac = "aa:bb:cc:dd:11:22" -> "169.254.17.34"
      [] mac = "AA:BB:CC:DD:FF:0A" -> "169.254.255.10"
      [] mac = "00:00:00:00:00:00" -> "169.254.0.0"
      [] mac = PeerA               -> "169.254.170.170"
      [] mac = PeerB               -> "169.254.187.187"

C15_MacToIpIsPure ==
    /\ \A i \in 1..Len(disc.calls) : disc.calls[i].ip = ExpectedIp(disc.calls[i].mac)
    /\ \A i, j \in 1..Len(disc.calls) :
          disc.calls[i].mac = disc.calls[j].mac => disc.calls[i].ip = disc.calls[j].ip
    /\ \A i \in 1..Len(disc.returned) :
          disc.platform = "Linux" =>
             disc.returned[i].ip = calculate_ip_from_mac(disc.returned[i].mac)

C15_Witness ==
    /\ Len(disc.calls) = 2
    /\ disc.calls[1] = [mac |-> "aa:bb:cc:dd:11:22", ip |-> "169.254.17.34"]
    /\ disc.calls[2].mac = "aa:bb:cc:dd:11:22"

(***************************************************************************)
(* The sync cycle under failures: of the routing tool, of the peer's       *)
(* answer, of the records' decoding and of the database (FaultSpec).       *)
(***************************************************************************)
\* what a peer's answer to the pull can be
FailingReplies == {"timeout", "connection_error", "http_error", "invalid_json", "error_status"}
ReplyKinds == {"success", "undecodable", "data_not_a_list", "not_a_dict"} \cup FailingReplies

\* the exception the request or the parsing of the answer raises, "" if none
RaisedByReply(kind) ==
    CASE kind = "timeout"          -> "Timeout"
      [] kind = "connection_error" -> "ConnectionError"
      [] kind = "http_error"       -> "HTTPError"
      [] kind = "invalid_json"     -> "JSONDecodeError"
      [] kind = "not_a_dict"       -> "AttributeError"
      [] kind = "data_not_a_list"  -> "TypeError"
      [] OTHER                     -> ""

\* the except clauses of pull_data_from_peer, by the first words of the message
ClauseMessageParsePulled(exc) ==
    CASE exc = "Timeout"         -> "Timeout connecting"
      [] exc = "ConnectionError" -> "Connection error"
      [] exc = "HTTPError"       -> "Request failed"
      [] exc = "JSONDecodeError" -> "Pulled"
      [] OTHER                   -> "Unexpected error"
ClauseMessage(exc) ==
    CASE exc = "Timeout"         -> "Timeout connecting"
      [] exc = "ConnectionError" -> "Connection error"
      [] exc = "HTTPError"       -> "Request failed"
      [] exc = "JSONDecodeError" -> "Failed to parse response"
      [] OTHER                   -> "Unexpected error"

\* pull_data_from_peer on an answer of the given kind carrying `data`
pull_data_from_peer(kind, data) ==
    IF RaisedByReply(kind) # ""
    THEN [status_msg |-> ClauseMessage(RaisedByReply(kind)), data_list |-> <<>>]
    ELSE IF kind = "error_status"
    THEN [status_msg |-> "Peer returned error", data_list |-> <<>>]
    ELSE [status_msg |-> "Pulled", data_list |-> data]

\* a data element without the key created_at; from_dict raises KeyError on it
WithoutCreatedAt(r) == [id |-> r.id, node_id |-> r.node_id]
Decodable(r) == {"id", "node_id", "created_at"} \subseteq DOMAIN r

\* the data of the answer: the peer's own reports newer than since, the
\* first of them damaged in an undecodable answer
ReplyData(kind, own) ==
    IF kind = "undecodable" /\ own # <<>>
    THEN <<WithoutCreatedAt(own[1])>> \o Tail(own)
    ELSE IF kind \in {"success", "undecodable"} THEN own ELSE <<>>

\* what the database does to the writes of one peer's handling
StorageFaults == {"ok", "report_write_fails", "log_write_fails"}

\* one report of save_location_reports when the database may refuse writes:
\* every exception but IntegrityError ends in the outer except, as skipped
SaveStepUnder(rows, r, storage) ==
    IF ~Decodable(r) THEN [rows |-> rows, out |-> <<"skipped">>]
    ELSE IF storage = "report_write_fails" /\ ~SelectById(rows, r.id)
    THEN [rows |-> rows, out |-> <<"skipped">>]
    ELSE SaveStep(rows, r)

RECURSIVE SaveLoopUnder(_, _, _, _)
SaveLoopUnder(rows, reports, out, storage) ==
    IF reports = <<>> THEN [rows |-> rows, out |-> out]
    ELSE LET step == SaveStepUnder(rows, Head(reports), storage)
         IN  SaveLoopUnder(step.rows, Tail(reports), out \o step.out, storage)

save_location_reports_under(rows, reports, storage) ==
    LET done == SaveLoopUnder(rows, reports, <<>>, storage) IN
    [rows |-> done.rows, out |-> done.out,
     saved_count |-> CountOf(done.out, "saved"),
     skipped_count |-> CountOf(done.out, "skipped")]

\* the `except Exception` around the initialisation of the sync_log entries
CaughtAtInitIntegrityOnly(exc) == exc = "IntegrityError"
CaughtAtInit(exc) == exc \in {"OperationalError", "IntegrityError", "DatabaseError"}

\* what the first statement on sync_log raises when the table is missing
InitBlockRaises(exists) == IF exists THEN "" ELSE "OperationalError"

\* the outputs of the routing tool a cycle is started with
FaultOutputs ==
    { <<>>,
      << <<"Originator", "last-seen", "Nexthop">>,
         <<"*", PeerA, "0.610s", "(255)", PeerA>> >>,
      << <<"bb-bb-bb-bb-bb-bb", "0.420s", "(230)", PeerA>>,
         <<"*", PeerA, "0.610s", "(255)", PeerA>> >> }

FaultInit ==
    /\ SyncInit
    /\ saveLog = <<>>
    /\ act = [i \in {1, 2} |-> NoActivity]
    /\ SchedIdle
    /\ served = NotServed
    /\ disc = NoDiscovery
    /\ fault = NoFaults
    /\ AuxIdle
    /\ table_exists \in BOOLEAN

\* sync_with_all_peers up to the loop: get_all_peers, the summary, the
\* initialisation of the sync_log entries
BeginCycle(tool, stdout) ==
    /\ pc = "idle"
    /\ tool = "ok" \/ stdout = <<>>
    /\ LET got == get_all_peers("Linux", Me, tool, stdout)
           order == [i \in 1..Len(got.returned) |-> got.returned[i].mac]
           exc == InitBlockRaises(table_exists)
       IN  /\ disc' = [NoDiscovery EXCEPT !.platform = "Linux", !.my_node_id = Me,
                          !.tool = tool, !.stdout = stdout,
                          !.returned = got.returned, !.raised = got.raised]
           /\ IF got.raised \/ (exc # "" /\ ~CaughtAtInit(exc))
              THEN /\ pc' = "raised"
                   /\ UNCHANGED <<clock, peerReports, nextId, store, sync_log, todo, since, resp, results>>
                   /\ UNCHANGED histVars
              ELSE CycleStart(order)
    /\ fault' = NoFaults
    /\ UNCHANGED <<saveVars, schedVars, served, table_exists, auxVars>>

\* get_last_sync_time, then pull_data_from_peer on an answer of some kind
PullReplied(kind) ==
    /\ pc = "loop" /\ todo # <<>>
    /\ LET p == Head(todo)
           last_sync == get_last_sync_time(sync_log, p)
           own == get_own_data_since(peerReports[p], p, last_sync)
           got == pull_data_from_peer(kind, ReplyData(kind, own))
       IN  /\ kind = "undecodable" => own # <<>>
           /\ since' = last_sync
           /\ resp' = got
           /\ received' = [received EXCEPT ![p] =
                             {got.data_list[i] : i \in 1..Len(got.data_list)}]
           /\ pulls' = [pulls EXCEPT ![p] = Append(@, last_sync)]
           /\ fault' = [fault EXCEPT ![p].reply = kind]
    /\ pc' = "pulled"
    /\ UNCHANGED <<clock, peerReports, nextId, store, sync_log, todo, results>>
    /\ UNCHANGED <<wmBefore, cycleStart, outcome, fresh, lastFail, firstWm>>
    /\ UNCHANGED <<saveVars, schedVars, served, disc, table_exists, auxVars>>

\* the rest of the loop body while the database may refuse the writes
HandleReply(storage) ==
    /\ pc = "pulled"
    /\ LET p == Head(todo)
           ok == IsSuccessful(resp.status_msg, resp.data_list)
           saved == save_location_reports_under(store, resp.data_list, storage)
       IN  /\ storage # "ok" => ok
           /\ storage = "report_write_fails" =>
                 \E i \in 1..Len(resp.data_list) :
                    /\ Decodable(resp.data_list[i])
                    /\ ~SelectById(store, resp.data_list[i].id)
           /\ IF ok
              THEN /\ store' = saved.rows
                   /\ results' = [results EXCEPT
                         !.total_reports_pulled = @ + Len(resp.data_list),
                         !.total_reports_saved = @ + saved.saved_count,
                         !.total_reports_skipped = @ + saved.skipped_count,
                         !.peers_synced = @ + 1]
                   /\ sync_log' = IF table_exists /\ storage # "log_write_fails"
                                  THEN AfterSuccessfulPull(sync_log, p, resp.data_list, clock)
                                  ELSE sync_log
              ELSE /\ results' = [results EXCEPT !.errors = Append(@, p)]
                   /\ UNCHANGED <<store, sync_log>>
           /\ outcome' = [outcome EXCEPT ![p] = IF ok THEN "ok" ELSE "fail"]
           /\ lastFail' = [lastFail EXCEPT ![p] = IF ok THEN NoPull ELSE since]
           /\ fault' = [fault EXCEPT ![p].storage = storage]
           /\ todo' = Rest(todo, ok)
    /\ pc' = "loop"
    /\ since' = NoPull
    /\ resp' = NoResp
    /\ UNCHANGED <<clock, peerReports, nextId>>
    /\ UNCHANGED <<wmBefore, cycleStart, received, pulls, fresh, firstWm>>
    /\ UNCHANGED <<saveVars, schedVars, served, disc, table_exists, auxVars>>

\* return results
FinishCycle ==
    /\ CycleEnd
    /\ disc' = NoDiscovery
    /\ fault' = NoFaults
    /\ UNCHANGED <<saveVars, schedVars, served, table_exists, auxVars>>

FaultNext ==
    \/ Tick
    \/ \E p \in Peers, t \in 1..MaxClock : PeerRecord(p, t)
    \/ \E tool \in ToolOutcomes, stdout \in FaultOutputs : BeginCycle(tool, stdout)
    \/ \E kind \in ReplyKinds : PullReplied(kind)
    \/ \E storage \in StorageFaults : HandleReply(storage)
    \/ FinishCycle

FaultSpec == FaultInit /\ [][FaultNext]_vars

\* C16: discovery failure is an empty cycle: when the run of the routing
\* tool fails (missing, denied, timeout, non-zero exit), get_all_peers
\* returns an empty map without raising, and the cycle that follows reports
\* peers_found = 0, records no error, issues no pull and changes no
\* watermark and no report.
C16_DiscoveryFailureIsEmptyCycle ==
    /\ [](disc.tool \in ToolFailures =>
            /\ ~disc.raised /\ disc.returned = <<>>
            /\ CycleDone
            /\ results = EmptyResults
            /\ \A p \in Peers : pulls[p] = <<>>)
    /\ [][disc'.tool \in ToolFailures =>
            /\ store' = store
            /\ sync_log' = sync_log]_vars
C16_Witness ==
    /\ disc.tool = "PermissionError"
    /\ CycleDone
    /\ DOMAIN sync_log # {}
    /\ store # {}

\* C17: all pull failures have the same outcome: an answer whose status is
\* not success, a non-2xx HTTP status, a network failure and a body that is
\* not valid JSON each give zero records, exactly one recorded error for
\* that peer, and an unchanged watermark.
C17_PullFailuresAlike ==
    /\ [](CycleDone =>
            \A p \in Peers : fault[p].reply \in FailingReplies =>
                /\ received[p] = {}
                /\ ErrorsFor(p) = 1
                /\ Wm(p) = wmBefore[p])
    /\ [][(pc = "pulled" /\ pc' = "loop" /\ fault[Head(todo)].reply \in FailingReplies) =>
            /\ resp.data_list = <<>>
            /\ store' = store
            /\ sync_log' = sync_log
            /\ results' = [results EXCEPT !.errors = Append(@, Head(todo))]]_vars
C17_Witness ==
    /\ CycleDone
    /\ fault[PeerA].reply = "invalid_json"
    /\ fault[PeerB].reply = "http_error"
    /\ wmBefore[PeerA] > 0
    /\ peerReports[PeerA] # {}

\* C18: a schema-violating answer is treated like an unreachable peer: when
\* a peer answers with status success but a data element cannot be decoded
\* into a LocationReport, the peer's watermark is unchanged and an error is
\* recorded for that peer in the cycle's summary.
C18_UndecodableIsFailure ==
    CycleDone =>
        \A p \in Peers : fault[p].reply = "undecodable" =>
            /\ Wm(p) = wmBefore[p]
            /\ ErrorsFor(p) >= 1

\* C19: a persistence failure leaves the peer not-yet-synced: when the
\* write of a pulled report or of the peer's watermark fails, the peer is
\* not counted in peers_synced for that cycle and its watermark does not
\* move past a report that was not stored.
WriteFailed(p) == fault[p].storage \in {"report_write_fails", "log_write_fails"}
C19_PersistenceFailureNotSynced ==
    CycleDone =>
        /\ results.peers_synced <=
              Cardinality({q \in Peers : outcome[q] = "ok" /\ ~WriteFailed(q)})
        /\ \A p \in Peers : WriteFailed(p) =>
              \A r \in received[p] :
                 (Decodable(r) /\ ~ExistsId(store, r.id)) => r.created_at > Wm(p)

\* C20: the coordinator never raises out of a cycle: under every
\* combination of discovery failure, missing sync_log table, pull failure,
\* undecodable records and storage failure, sync_with_all_peers goes on to
\* return its summary (every pass of the loop leaves fewer peers to do) and
\* every discovered peer is attempted.
C20_CycleNeverRaises ==
    /\ [](pc # "raised")
    /\ [](CycleDone => \A p \in Keys(disc.returned) :
                          pulls[p] # <<>> /\ outcome[p] # "none")
    /\ [][(pc = "pulled" /\ pc' # "pulled") =>
             (pc' = "loop" /\ Len(todo') < Len(todo))]_vars
C20_Witness ==
    /\ CycleDone
    /\ ~table_exists
    /\ fault[PeerA] = [reply |-> "undecodable", storage |-> "report_write_fails"]
    /\ fault[PeerB].reply = "timeout"

(***************************************************************************)
(* The scheduler's stop (SchedSpec).                                      *)
(***************************************************************************)
\* stop() has returned and start() was not called since
Stopped == stop_event /\ main = "idle"

\* C21: clean stop: stop() waits for the cycle in flight, so while the
\* scheduler is stopped no cycle triggered by the loop is running, and the
\* loop triggers no further cycle.
C21_CleanStop ==
    /\ [](Stopped => Posting = {} /\ orphans = 0)
    /\ [][Stopped => Posting' \subseteq Posting]_vars

(***************************************************************************)
(* The life of a sync_log row (Spec).                                      *)
(***************************************************************************)
\* C22: sync state is never deleted: a sync_log row, once there, is there
\* in every later state; its watermark changes only by a successful pull
\* from its peer, so a cycle in which the peer is not discovered leaves it
\* alone, and the next pull from the peer starts from it.
C22_SyncStateNeverDeleted ==
    [][/\ \A p \in DOMAIN sync_log :
             /\ p \in DOMAIN sync_log'
             /\ sync_log'[p].last_sync_at # sync_log[p].last_sync_at =>
                   /\ pc = "pulled" /\ p = Head(todo)
                   /\ IsSuccessful(resp.status_msg, resp.data_list)
       /\ (pc = "loop" /\ pc' = "pulled") => since' = Wm(Head(todo))]_vars
C22_Witness ==
    /\ pc = "pulled"
    /\ Head(todo) = PeerA
    /\ since > 0
    /\ since < clock
    /\ results.peers_found = 1
    /\ Wm(PeerB) > since

\* C23: the initialisation does not touch an existing watermark: when the
\* cycle's initialisation runs for a peer that has a sync_log row, the row's
\* last_sync_at is unchanged; only last_known_ip may change.
C23_InitKeepsWatermark ==
    [][(pc = "idle" /\ pc' = "loop") =>
          \A p \in DOMAIN sync_log :
             /\ p \in DOMAIN sync_log'
             /\ sync_log'[p] = [sync_log[p] EXCEPT !.last_known_ip = sync_log'[p].last_known_ip]]_vars
C23_Witness ==
    /\ pc = "loop"
    /\ todo # <<>>
    /\ Len(todo) = results.peers_found
    /\ Wm(Head(todo)) > 0
    /\ fresh = {}

(***************************************************************************)
(* The sync_log table by itself: its writers and its reader (LogSpec).     *)
(***************************************************************************)
LogInit ==
    /\ SyncInit
    /\ saveLog = <<>>
    /\ act = [i \in {1, 2} |-> NoActivity]
    /\ SchedIdle
    /\ served = NotServed
    /\ disc = NoDiscovery
    /\ fault = NoFaults
    /\ AuxIdle
    /\ table_exists \in BOOLEAN

LogFrame ==
    UNCHANGED <<peerReports, nextId, store, pc, todo, since, resp, results, histVars,
                saveVars, schedVars, served, disc, table_exists, fault, ident, prov, reqVars>>

\* the initialisation of the entries at the start of a cycle
EnsureInitialized(peers) ==
    /\ table_exists
    /\ sync_log' = InitSyncLog(sync_log, peers, clock)
    /\ wlog' = [wlog EXCEPT !.written =
                   [p \in Peers |-> IF p \in peers /\ p \notin DOMAIN sync_log
                                    THEN InitialSyncTime(clock) ELSE @[p]]]
    /\ UNCHANGED clock
    /\ LogFrame

\* update_last_sync_time(peer_node_id, peer_ip)
UpdateLastSyncTime(p) ==
    /\ table_exists
    /\ sync_log' = update_last_sync_time(sync_log, p, calculate_ip_from_mac(p), clock)
    /\ wlog' = [wlog EXCEPT !.written[p] = NewSyncTime(get_last_sync_time(sync_log, p), clock)]
    /\ UNCHANGED clock
    /\ LogFrame

\* log_incoming_sync_request(peer_ip)
LogIncoming(peer_ip, visible) ==
    /\ table_exists
    /\ sync_log' = log_incoming_sync_request(sync_log, visible, peer_ip)
    /\ wlog' = [wlog EXCEPT !.written =
                   [p \in Peers |-> IF p \in DOMAIN sync_log' /\ p \notin DOMAIN sync_log
                                    THEN 0 ELSE @[p]]]
    /\ UNCHANGED clock
    /\ LogFrame

\* get_last_sync_time(peer_node_id)
GetLastSyncTime(p) ==
    /\ wlog' = [wlog EXCEPT !.got = [peer |-> p,
                                     value |-> get_last_sync_time(sync_log, p),
                                     written |-> wlog.written[p]]]
    /\ UNCHANGED <<clock, sync_log>>
    /\ LogFrame

LogNext ==
    \/ Tick
    \/ \E peers \in SUBSET Peers : EnsureInitialized(peers)
    \/ \E p \in Peers : UpdateLastSyncTime(p)
    \/ \E peer_ip \in RequesterIps, visible \in SUBSET Peers : LogIncoming(peer_ip, visible)
    \/ \E p \in Peers : GetLastSyncTime(p)

LogSpec == LogInit /\ [][LogNext]_vars

RECURSIVE Without(_, _)
Without(str, ch) ==
    IF str = "" THEN ""
    ELSE (IF Head(str) = ch THEN "" ELSE Head(str)) \o Without(Tail(str), ch)
RECURSIVE StripLeft(_)
StripLeft(str) ==
    IF str # "" /\ Head(str) \in {"{", "}"} THEN StripLeft(Tail(str)) ELSE str
RECURSIVE StripRight(_)
StripRight(str) ==
    IF str # "" /\ SubSeq(str, Len(str), Len(str)) \in {"{", "}"}
    THEN StripRight(SubSeq(str, 1, Len(str) - 1)) ELSE str

\* UUID(text): the braces and hyphens go, 32 hexadecimal digits must remain;
\* str(uuid): the digits in lower case, grouped 8-4-4-4-12
UuidDigits == 32
UuidText(hex) ==
    SubSeq(hex, 1, 8) \o "-" \o SubSeq(hex, 9, 12) \o "-" \o SubSeq(hex, 13, 16)
        \o "-" \o SubSeq(hex, 17, 20) \o "-" \o SubSeq(hex, 21, 32)
StrOfUUID(text) ==
    LET hex == Without(StripRight(StripLeft(text)), "-") IN
    IF Len(hex) # UuidDigits \/ ~AllHex(hex) THEN "ValueError"
    ELSE UuidText(Lower(hex))

\* LocationReport.from_dict, and the columns add_location writes from it
from_dict_own_node(data) ==
    IF StrOfUUID(data.id) = "ValueError" THEN [raised |-> TRUE]
    ELSE [raised |-> FALSE,
          report |-> [id |-> StrOfUUID(data.id), node_id |-> Me,
                      created_at |-> data.created_at]]
from_dict(data) ==
    IF StrOfUUID(data.id) = "ValueError" THEN [raised |-> TRUE]
    ELSE [raised |-> FALSE,
          report |-> [id |-> StrOfUUID(data.id), node_id |-> data.node_id,
                      created_at |-> data.created_at]]

\* the ids peers send: one UUID in its canonical text, in upper case and in
\* braces, a second UUID, and a text that is no UUID
ReceivedIds ==
    {"0a1b2c3d-0000-4000-8000-00000000000a", "0A1B2C3D-0000-4000-8000-00000000000A",
     "{0a1b2c3d-0000-4000-8000-00000000000a}", "0a1b2c3d-0000-4000-8000-00000000000b",
     "not-a-uuid"}
ReceivedDicts ==
    [id : ReceivedIds, node_id : {PeerA, PeerB, "AA:AA:AA:AA:AA:AA"}, created_at : {0, MaxClock}]

\* the loop body of save_location_reports for one element of a peer's data
SaveReceived(p, data) ==
    /\ Len(prov.calls) < MaxCalls
    /\ LET got == from_dict(data)
           step == IF got.raised THEN [rows |-> prov.rows, out |-> <<"skipped">>]
                   ELSE SaveStep(prov.rows, got.report)
       IN  prov' = [rows |-> step.rows,
                    calls |-> Append(prov.calls,
                                [peer |-> p, received |-> data, out |-> step.out])]
    /\ UNCHANGED <<store, cycleVars, histVars, saveVars, schedVars>>
    /\ UNCHANGED <<served, disc, table_exists, fault, wlog, ident, reqVars>>

ProvNext == \E p \in Peers, data \in ReceivedDicts : SaveReceived(p, data)

ProvSpec == Init /\ [][ProvNext]_vars

\* which UUID a text stands for (0: none)
UuidOf(text) ==
    CASE text \in {"0a1b2c3d-0000-4000-8000-00000000000a",
                   "0A1B2C3D-0000-4000-8000-00000000000A",
                   "{0a1b2c3d-0000-4000-8000-00000000000a}"} -> 1
      [] text = "0a1b2c3d-0000-4000-8000-00000000000b" -> 2
      [] OTHER -> 0

\* C25: replication preserves provenance: every report stored by
\* save_location_reports has the node_id, the id (as a UUID) and the
\* created_at of the record received from the peer; neither the local
\* node's id nor the serving peer's id is put in its place.
C25_ProvenancePreserved ==
    /\ \A row \in prov.rows :
          \E i \in 1..Len(prov.calls) :
             LET c == prov.calls[i] IN
             /\ c.out = <<"saved">>
             /\ UuidOf(row.id) = UuidOf(c.received.id) /\ UuidOf(row.id) # 0
             /\ row.node_id = c.received.node_id
             /\ row.created_at = c.received.created_at
    /\ \A i \in 1..Len(prov.calls) :
          prov.calls[i].out = <<"saved">> =>
             \E row \in prov.rows :
                /\ UuidOf(row.id) = UuidOf(prov.calls[i].received.id)
                /\ row.node_id = prov.calls[i].received.node_id
                /\ row.created_at = prov.calls[i].received.created_at
C25_Witness ==
    /\ Len(prov.calls) = 2
    /\ prov.calls[1].peer = PeerB
    /\ prov.calls[1].received.node_id = "AA:AA:AA:AA:AA:AA"
    /\ prov.calls[1].received.id = "{0a1b2c3d-0000-4000-8000-00000000000a}"
    /\ prov.calls[1].out = <<"saved">>
    /\ prov.calls[2].received.id = "0A1B2C3D-0000-4000-8000-00000000000A"
    /\ prov.calls[2].out = <<"skipped">>
    /\ Cardinality(prov.rows) = 1

(***************************************************************************)
(* The report store under everything that writes or reads it: sync         *)
(* cycles, pull requests of peers, local inserts (StoreSpec).              *)
(***************************************************************************)
StoreNext ==
    \/ Tick
    \/ \E p \in Peers : PeerRecord(p, clock)
    \/ \E order \in {<<PeerA>>, <<PeerB, PeerA>>} : StartCycle(order)
    \/ PullAnswered
    \/ PullFailed("Timeout connecting")
    \/ HandlePull
    \/ EndCycle
    \/ LocalInsert
    \/ GetSyncData(0, calculate_ip_from_mac(PeerB), Peers)

StoreSpec == Init /\ [][StoreNext]_vars

\* C26: the report store is append-only: over any sequence of sync cycles,
\* incoming pull requests and local inserts the set of stored reports only
\* grows, and the fields of a stored report never change.
C26_AppendOnly ==
    [][/\ store \subseteq store'
       /\ \A r \in store : \A q \in store' : q.id = r.id => q = r]_vars
C26_Witness ==
    /\ \E r \in store : r.node_id = Me
    /\ \E r \in store : r.node_id = PeerA
    /\ served.code # 0
    /\ CycleDone

(***************************************************************************)
(* Duplicates and empty answers in a cycle (Spec).                         *)
(***************************************************************************)
\* the pull in hand was successful and every record of it is stored already
AllDuplicates ==
    /\ pc = "pulled"
    /\ resp.status_msg = "Pulled"
    /\ resp.data_list # <<>>
    /\ \A i \in 1..Len(resp.data_list) : ExistsId(store, resp.data_list[i].id)

\* C27: a duplicate is not an error: a successful pull whose records are
\* all stored already adds one to total_reports_skipped per record and
\* nothing to errors, counts the peer as synced and advances its watermark
\* as every successful pull does.
C27_DuplicateIsNotAnError ==
    [][(AllDuplicates /\ pc' = "loop") =>
          /\ results'.total_reports_skipped =
                results.total_reports_skipped + Len(resp.data_list)
          /\ results'.total_reports_saved = results.total_reports_saved
          /\ results'.errors = results.errors
          /\ results'.peers_synced = results.peers_synced + 1
          /\ get_last_sync_time(sync_log', Head(todo)) = clock
          /\ store' = store]_vars
C27_Witness ==
    /\ CycleDone
    /\ results.total_reports_skipped = 2
    /\ results.total_reports_saved = 0
    /\ results.errors = <<>>
    /\ results.peers_synced >= 1

(***************************************************************************)
(* The node's identity: get_current_node_id and get_my_node_id called by   *)
(* the server's threads while the interfaces come and go (IdSpec).         *)
(***************************************************************************)
\* what /sys/class/net/<interface>/address can hold ("": no such file, or
\* the all-zero address, which the code refuses)
Addresses(interface) ==
    CASE interface = "bat0"  -> {"", "02:00:00:00:00:b1", "02:00:00:00:00:b2"}
      [] interface = "wlan0" -> {"", "02:00:00:00:00:a1"}
      [] OTHER               -> {"", "02:00:00:00:00:e1"}

\* _get_mac_from_interface
get_mac_from_interface(address, interface) == address[interface]

\* _get_mac_system, reached when no interface gave an address
get_mac_system(address) == "00:00:00:00:00:00"

\* the probing of get_current_node_id: bat0, then wlan0, then eth0, then
\* the system method
ProbeNodeId(address) ==
    IF get_mac_from_interface(address, "bat0") # ""
    THEN get_mac_from_interface(address, "bat0")
    ELSE IF get_mac_from_interface(address, "wlan0") # ""
    THEN get_mac_from_interface(address, "wlan0")
    ELSE IF get_mac_from_interface(address, "eth0") # ""
    THEN get_mac_from_interface(address, "eth0")
    ELSE get_mac_system(address)

IdInit ==
    /\ SyncInit
    /\ saveLog = <<>>
    /\ act = [i \in {1, 2} |-> NoActivity]
    /\ SchedIdle
    /\ served = NotServed
    /\ disc = NoDiscovery
    /\ table_exists = TRUE
    /\ fault = NoFaults
    /\ wlog = NoLog
    /\ prov = NoProv
    /\ incoming = NoIncoming
    /\ target = NoTarget
    /\ caller = "none"
    /\ \E a \in [{"bat0", "wlan0", "eth0"} -> {"", "02:00:00:00:00:a1"}] :
          /\ a["bat0"] = "" /\ a["eth0"] = ""
          /\ ident = [NoIdent EXCEPT !.address = a]

IdFrame ==
    UNCHANGED <<store, cycleVars, histVars, saveVars, schedVars,
                served, disc, table_exists, fault, wlog, prov, reqVars>>

\* an interface appears, disappears or changes its hardware address
InterfaceChange(interface, mac) ==
    /\ ident.address[interface] # mac
    /\ ident' = [ident EXCEPT !.address[interface] = mac]
    /\ IdFrame

\* a thread calls get_current_node_id ("cluster") or get_my_node_id ("sync")
BeginCall(t, of) ==
    /\ ident.call[t].at = "idle"
    /\ ident.begun < MaxIdCalls
    /\ ident' = [ident EXCEPT
          !.begun = @ + 1,
          !.call[t] = [at |-> IF of = "sync" THEN "my_check" ELSE "check",
                       of |-> of, node_id |-> "",
                       after |-> Len(ident.returned), probed |-> FALSE]]
    /\ IdFrame

\* the call returns value: the thread is free again
Returned(c, value) ==
    [of |-> c.of, value |-> value, after |-> c.after, probed |-> c.probed]

\* if self._my_node_id is None
MyCheck(t) ==
    /\ ident.call[t].at = "my_check"
    /\ ident' = IF ident._my_node_id # ""
                THEN [ident EXCEPT
                        !.returned = Append(@, Returned(ident.call[t], ident._my_node_id)),
                        !.call[t] = NoCall]
                ELSE [ident EXCEPT !.call[t].at = "check"]
    /\ IdFrame

\* if self._node_id: return self._node_id
Check(t) ==
    /\ ident.call[t].at = "check"
    /\ ident' = IF ident._node_id = ""
                THEN [ident EXCEPT !.call[t].at = "probing"]
                ELSE IF ident.call[t].of = "sync"
                THEN [ident EXCEPT !.call[t].at = "my_store",
                                   !.call[t].node_id = ident._node_id]
                ELSE [ident EXCEPT
                        !.returned = Append(@, Returned(ident.call[t], ident._node_id)),
                        !.call[t] = NoCall]
    /\ IdFrame

\* node_id = self._get_mac_from_interface('bat0') ... self._get_mac_system()
Probe(t) ==
    /\ ident.call[t].at = "probing"
    /\ ident' = [ident EXCEPT !.call[t].at = "store",
                              !.call[t].node_id = ProbeNodeId(ident.address),
                              !.call[t].probed = TRUE]
    /\ IdFrame

\* self._node_id = node_id; return node_id
Store(t) ==
    /\ ident.call[t].at = "store"
    /\ ident' = IF ident.call[t].of = "sync"
                THEN [ident EXCEPT !._node_id = ident.call[t].node_id,
                                   !.call[t].at = "my_store"]
                ELSE [ident EXCEPT
                        !._node_id = ident.call[t].node_id,
                        !.returned = Append(@, Returned(ident.call[t], ident.call[t].node_id)),
                        !.call[t] = NoCall]
    /\ IdFrame

\* self._my_node_id = ...; return self._my_node_id
MyStore(t) ==
    /\ ident.call[t].at = "my_store"
    /\ ident' = [ident EXCEPT
          !._my_node_id = ident.call[t].node_id,
          !.returned = Append(@, Returned(ident.call[t], ident.call[t].node_id)),
          !.call[t] = NoCall]
    /\ IdFrame

IdNext ==
    \/ \E interface \in {"bat0", "wlan0", "eth0"} :
          \E mac \in Addresses(interface) : InterfaceChange(interface, mac)
    \/ \E t \in {1, 2}, of \in {"cluster", "sync"} : BeginCall(t, of)
    \/ \E t \in {1, 2} : MyCheck(t)
    \/ \E t \in {1, 2} : Check(t)
    \/ \E t \in {1, 2} : Probe(t)
    \/ \E t \in {1, 2} : Store(t)
    \/ \E t \in {1, 2} : MyStore(t)

IdSpec == IdInit /\ [][IdNext]_vars

None == NoPull

EmptyTestResults ==
    [peers_found |-> 0, peers_attempted |-> 0, total_reports_pulled |-> 0,
     total_reports_saved |-> 0, total_reports_skipped |-> 0, errors |-> <<>>]

\* which timestamp a peer is pulled with
PeerSince(log, p, since_timestamp, use_sync_log) ==
    IF use_sync_log /\ since_timestamp = None THEN get_last_sync_time(log, p)
    ELSE IF since_timestamp # None THEN since_timestamp
    ELSE 0

\* the loop over peers.items(): pull, save, update_last_sync_time
RECURSIVE TestPullLoop(_, _, _, _, _, _, _, _)
TestPullLoop(order, st, reports, replies, since_timestamp, use_sync_log, now_ms, k) ==
    IF k > Len(order) THEN st
    ELSE LET p == order[k]
             peer_since == PeerSince(st.log, p, since_timestamp, use_sync_log)
             own == get_own_data_since(reports[p], p, peer_since)
             got == pull_data_from_peer(replies[p], ReplyData(replies[p], own))
             saved == save_location_reports(st.rows, got.data_list)
             attempted == [st.results EXCEPT !.peers_attempted = @ + 1]
             next ==
                 IF IsSuccessful(got.status_msg, got.data_list)
                 THEN [rows |-> saved.rows,
                       log |-> AfterSuccessfulPull(st.log, p, got.data_list, now_ms),
                       results |-> [attempted EXCEPT
                           !.total_reports_pulled = @ + Len(got.data_list),
                           !.total_reports_saved = @ + saved.saved_count,
                           !.total_reports_skipped = @ + saved.skipped_count]]
                 ELSE [st EXCEPT !.results = [attempted EXCEPT !.errors = Append(@, p)]]
         IN  TestPullLoop(order, next, reports, replies, since_timestamp,
                          use_sync_log, now_ms, k + 1)

\* test_pull_all_peers(since_timestamp, use_sync_log), the whole call
TestPullAllPeers(order, since_timestamp, use_sync_log, replies) ==
    /\ pc = "idle"
    /\ LET peers == {order[i] : i \in 1..Len(order)}
           start == [rows |-> store,
                     log |-> IF use_sync_log /\ table_exists
                             THEN InitSyncLog(sync_log, peers, clock) ELSE sync_log,
                     results |-> [EmptyTestResults EXCEPT !.peers_found = Len(order)]]
           done == TestPullLoop(order, start, peerReports, replies, since_timestamp,
                                use_sync_log, clock, 1)
       IN  /\ store' = done.rows
           /\ sync_log' = done.log
           /\ results' = done.results
    /\ wmBefore' = [p \in Peers |-> get_last_sync_time(sync_log, p)]
    /\ cycleStart' = clock
    /\ UNCHANGED <<clock, peerReports, nextId, pc, todo, since, resp>>
    /\ UNCHANGED <<outcome, received, pulls, fresh, lastFail, firstWm>>
    /\ UNCHANGED <<saveVars, schedVars, extVars>>

TestPullNext ==
    \/ Tick
    \/ \E p \in Peers, t \in 1..MaxClock : PeerRecord(p, t)
    \/ \E order \in {<<PeerA>>, <<PeerA, PeerB>>} :
          \E since_timestamp \in {None, 0}, use_sync_log \in BOOLEAN :
             \E reply \in {"success", "timeout"} :
                TestPullAllPeers(order, since_timestamp, use_sync_log,
                                 [p \in Peers |-> IF p = PeerA THEN reply ELSE "success"])

TestPullSpec == Init /\ [][TestPullNext]_vars

C30_EmptySuccessIsNotFailure ==
    [][(pc = "pulled" /\ pc' = "loop" /\ resp.data_list = <<>>) =>
          IF resp.status_msg = "Pulled"
          THEN /\ results'.errors = results.errors
               /\ results'.peers_synced = results.peers_synced + 1
               /\ get_last_sync_time(sync_log', Head(todo)) = clock
          ELSE /\ resp.status_msg \in FailKinds
               /\ results'.errors = Append(results.errors, Head(todo))
               /\ results'.peers_synced = results.peers_synced
               /\ sync_log' = sync_log]_vars
C30_Witness ==
    /\ CycleDone
    /\ outcome[PeerA] = "ok" /\ received[PeerA] = {}
    /\ Wm(PeerA) = clock /\ Wm(PeerA) > wmBefore[PeerA]
    /\ outcome[PeerB] = "fail"
    /\ Wm(PeerB) = wmBefore[PeerB]
    /\ results.errors = <<PeerB>>
    /\ results.peers_synced = 1

(***************************************************************************)
(* One request per peer and cycle (sync_with_all_peers, the loop over      *)
(* peers.items(); pull_data_from_peer issues a single requests.get).       *)
(***************************************************************************)
InTodo(p) == \E i \in 1..Len(todo) : todo[i] = p

\* C31: no retry inside a cycle: a peer is pulled from at most once in a
\* cycle, the request's since value is the watermark read for that peer in
\* this cycle, a handled pull (failed or not) takes the peer off the
\* cycle's list, and at the end of the cycle every discovered peer has had
\* exactly one request.
C31_NoRetryInCycle ==
    /\ [](/\ \A p \in Peers : Len(pulls[p]) <= 1
          /\ pc = "pulled" =>
                /\ since = Wm(Head(todo))
                /\ pulls[Head(todo)] = <<since>>
          /\ pc = "loop" => \A p \in Peers :
                /\ InTodo(p) => (Len(pulls[p]) = 0 /\ outcome[p] = "none")
                /\ outcome[p] # "none" => Len(pulls[p]) = 1)
    /\ [][ (pc = "pulled" /\ pc' = "loop") =>
              /\ todo' = Tail(todo)
              /\ ~(\E i \in 1..Len(todo') : todo'[i] = Head(todo))
              /\ pulls' = pulls ]_vars

C31_Witness ==
    /\ pc = "loop" /\ todo = <<PeerB>>
    /\ outcome[PeerA] = "fail" /\ pulls[PeerA] = <<wmBefore[PeerA]>>
    /\ wmBefore[PeerA] > 0

(***************************************************************************)
(* Serving a peer while a sync cycle runs: log_incoming_sync_request, one  *)
(* database statement at a time, next to the cycle's steps (IncomingSpec). *)
(* peer_node_id is the primary key of sync_log.                            *)
(***************************************************************************)
\* for mac, ip in peers.items(): if ip == peer_ip: the first such mac
LookupPeer(peers, peer_ip) ==
    LET macs == {m \in peers : calculate_ip_from_mac(m) = peer_ip} IN
    IF macs = {} THEN "" ELSE CHOOSE m \in macs : TRUE

\* UPDATE sync_log SET last_known_ip = ? WHERE peer_node_id = ?
IncomingUpdate(log, peer_node_id, peer_ip) ==
    IF peer_node_id \in DOMAIN log
    THEN [log EXCEPT ![peer_node_id].last_known_ip = peer_ip]
    ELSE log

\* the mutation of the INSERT: INSERT OR REPLACE
IncomingInsertOrReplace(log, peer_node_id, peer_ip) ==
    [log |-> [p \in DOMAIN log \cup {peer_node_id} |->
                IF p = peer_node_id THEN [last_sync_at |-> 0, last_known_ip |-> peer_ip]
                ELSE log[p]],
     raised |-> ""]

\* INSERT INTO sync_log (...) VALUES (?, ?, 0): refused when the key exists
IncomingInsert(log, peer_node_id, peer_ip) ==
    IF peer_node_id \in DOMAIN log
    THEN [log |-> log, raised |-> "IntegrityError"]
    ELSE [log |-> [p \in DOMAIN log \cup {peer_node_id} |->
                     IF p = peer_node_id THEN [last_sync_at |-> 0, last_known_ip |-> peer_ip]
                     ELSE log[p]],
          raised |-> ""]

IncomingFrame ==
    UNCHANGED <<store, clock, peerReports, nextId, pc, todo, since, resp, results,
                histVars, saveVars, schedVars, served, disc, table_exists, fault,
                wlog, ident, prov, target, caller>>

\* the request arrives: the lookup of the requester among the visible
\* peers, the return for an unknown requester, the SELECT of its row
IncomingSelect(peer_ip, visible) ==
    /\ incoming.at # "selected"
    /\ LET peer_node_id == LookupPeer(visible, peer_ip) IN
       incoming' = [at |-> IF peer_node_id = "" THEN "done" ELSE "selected",
                    peer_ip |-> peer_ip,
                    peer_node_id |-> peer_node_id,
                    exists |-> peer_node_id \in DOMAIN sync_log,
                    raised |-> ""]
    /\ UNCHANGED sync_log
    /\ IncomingFrame

\* the UPDATE or the INSERT, chosen by what the SELECT found, the commit,
\* and the except clause that swallows a refused statement
IncomingWrite ==
    /\ incoming.at = "selected"
    /\ LET done == IF incoming.exists
                   THEN [log |-> IncomingUpdate(sync_log, incoming.peer_node_id, incoming.peer_ip),
                         raised |-> ""]
                   ELSE IncomingInsert(sync_log, incoming.peer_node_id, incoming.peer_ip)
       IN  /\ sync_log' = done.log
           /\ incoming' = [incoming EXCEPT !.at = "done", !.raised = done.raised]
    /\ IncomingFrame

IncomingNext ==
    \/ Tick
    \/ \E order \in {<<PeerA>>, <<PeerB, PeerA>>} : StartCycle(order)
    \/ PullAnswered
    \/ PullFailed("Timeout connecting")
    \/ HandlePull
    \/ EndCycle
    \/ \E peer_ip \in RequesterIps, visible \in {{PeerA}, Peers} : IncomingSelect(peer_ip, visible)
    \/ IncomingWrite

IncomingSpec == Init /\ [][IncomingNext]_vars

\* C32: serving a peer never counts as having synced from it: no step of
\* log_incoming_sync_request changes the last_sync_at of a row that exists
\* or removes a row, a row it creates has last_sync_at = 0, and the
\* watermark a cycle read for its pull is still the stored one when the
\* pull is handled; under every interleaving of the request's statements
\* with the steps of a sync cycle.
C32_ServingIsNotSyncing ==
    /\ [][ incoming' # incoming =>
              /\ \A p \in DOMAIN sync_log :
                    /\ p \in DOMAIN sync_log'
                    /\ sync_log'[p].last_sync_at = sync_log[p].last_sync_at
              /\ \A p \in DOMAIN sync_log' \ DOMAIN sync_log :
                    sync_log'[p].last_sync_at = 0 ]_vars
    /\ [](pc = "pulled" => since = Wm(Head(todo)))

\* the request found no row, the cycle created it and synced, and the
\* request's INSERT was refused
C32_Witness ==
    /\ incoming.at = "done" /\ ~incoming.exists
    /\ incoming.raised = "IntegrityError"
    /\ sync_log[incoming.peer_node_id].last_sync_at > 0

(***************************************************************************)
(* Sync cycles while the mesh changes: every cycle runs the discovery      *)
(* anew and pulls from what it found (TopoSpec).                           *)
(***************************************************************************)
\* the mutation: the peers of the cycle are the discovered ones and, with
\* their last_known_ip, the ones sync_log knows from earlier cycles
CyclePeersWithKnown(discovered, log) ==
    LET known == DOMAIN log \ Keys(discovered)
        rest == CHOOSE q \in SetToSeqs(known) : TRUE
    IN  discovered \o [i \in 1..Len(rest) |->
                          [mac |-> rest[i], ip |-> log[rest[i]].last_known_ip]]

\* peers = self.get_all_peers(); for peer_mac, peer_ip in peers.items()
CyclePeers(discovered, log) == discovered

\* peer_ip of the loop's current item
PeerIp(peers, peer_mac) ==
    LET i == CHOOSE j \in 1..Len(peers) : peers[j].mac = peer_mac IN peers[i].ip

TopoOutputs ==
    { <<>>,
      << <<"*", PeerA, "0.610s", "(255)", PeerA>> >>,
      << <<"*", PeerB, "0.420s", "(230)", PeerA>>,
         <<"*", PeerA, "0.610s", "(255)", PeerA>> >> }

\* sync_with_all_peers up to the loop, on the routing tool's output
TopoBegin(stdout) ==
    /\ pc = "idle"
    /\ LET got == get_all_peers("Linux", Me, "ok", stdout)
           peers == CyclePeers(got.returned, sync_log)
       IN  /\ disc' = [NoDiscovery EXCEPT !.platform = "Linux", !.my_node_id = Me,
                          !.tool = "ok", !.stdout = stdout,
                          !.returned = got.returned, !.raised = got.raised]
           /\ target' = [peers |-> peers, peer_ip |-> ""]
           /\ CycleStart([i \in 1..Len(peers) |-> peers[i].mac])
    /\ UNCHANGED <<saveVars, schedVars, served, table_exists, fault, wlog, ident, prov, incoming, caller>>

\* get_last_sync_time and pull_data_from_peer(peer_ip, last_sync): the
\* request goes to the address of the loop's item
TopoPull(answered) ==
    /\ pc = "loop" /\ todo # <<>>
    /\ LET p == Head(todo)
           last_sync == get_last_sync_time(sync_log, p)
           data == IF answered THEN get_own_data_since(peerReports[p], p, last_sync) ELSE <<>>
       IN  /\ since' = last_sync
           /\ target' = [target EXCEPT !.peer_ip = PeerIp(target.peers, p)]
           /\ resp' = [status_msg |-> IF answered THEN "Pulled" ELSE "Connection error",
                       data_list |-> data]
           /\ received' = [received EXCEPT ![p] = {data[i] : i \in 1..Len(data)}]
           /\ pulls' = [pulls EXCEPT ![p] = Append(@, last_sync)]
    /\ pc' = "pulled"
    /\ UNCHANGED <<clock, peerReports, nextId, store, sync_log, todo, results>>
    /\ UNCHANGED <<wmBefore, cycleStart, outcome, fresh, lastFail, firstWm>>
    /\ UNCHANGED <<saveVars, schedVars, served, disc, table_exists, fault, wlog, ident, prov, incoming, caller>>

TopoNext ==
    \/ Tick
    \/ \E p \in Peers : PeerRecord(p, clock)
    \/ \E stdout \in TopoOutputs : TopoBegin(stdout)
    \/ \E answered \in BOOLEAN : TopoPull(answered)
    \/ HandlePull
    \/ EndCycle

TopoSpec == Init /\ [][TopoNext]_vars

\* C33: the address a pull request goes to is the one this cycle's
\* discovery gave for the peer: while a cycle runs, every peer it pulls from
\* or has yet to pull from is in the result of the get_all_peers call that
\* started the cycle, and the request's address is that result's address
\* for the peer, whatever sync_log holds from earlier cycles.
C33_AddressFromDiscovery ==
    /\ pc \in {"loop", "pulled"} =>
          \A i \in 1..Len(todo) : todo[i] \in Keys(disc.returned)
    /\ pc = "pulled" =>
          \E i \in 1..Len(disc.returned) :
             /\ disc.returned[i].mac = Head(todo)
             /\ disc.returned[i].ip = target.peer_ip

\* a peer synced in an earlier cycle is gone from the mesh; the cycle
\* pulls from the peer that is there
C33_Witness ==
    /\ pc = "pulled" /\ Head(todo) = PeerA
    /\ target.peer_ip = calculate_ip_from_mac(PeerA)
    /\ PeerB \in DOMAIN sync_log /\ Wm(PeerB) > 0
    /\ PeerB \notin Keys(disc.returned)

(***************************************************************************)
(* The summary a cycle returns (FaultSpec: any reply, any storage fault).  *)
(***************************************************************************)
\* C34: summary accounting of records: whenever a summary is or could be
\* returned, total_reports_pulled = total_reports_saved +
\* total_reports_skipped, and every step of a cycle adds to
\* total_reports_saved exactly the number of rows it adds to the report
\* store, so that the returned total_reports_saved is the number of rows
\* the cycle added.
C34_RecordAccounting ==
    /\ [](results.total_reports_pulled =
             results.total_reports_saved + results.total_reports_skipped)
    /\ [][ pc' # "idle" =>
              Cardinality(store') - Cardinality(store) =
                 results'.total_reports_saved - results.total_reports_saved ]_vars

\* a finished cycle that stored some reports and skipped others
C34_Witness ==
    /\ CycleDone
    /\ results.total_reports_saved > 0
    /\ results.total_reports_skipped > 0
    /\ results.total_reports_pulled >= 2

\* C35: summary accounting of peers: in every summary a cycle returns,
\* peers_synced plus the number of entries of errors is peers_found; while
\* the cycle runs the peers still to do make up the difference, and every
\* handled peer is counted once, as synced and without an error or with one
\* error and not as synced.
C35_PeerAccounting ==
    /\ pc \in {"loop", "pulled"} =>
          results.peers_synced + Len(results.errors) + Len(todo) = results.peers_found
    /\ CycleDone =>
          results.peers_synced + Len(results.errors) = results.peers_found
    /\ pc \in {"loop", "pulled"} =>
          /\ results.peers_synced = Cardinality({p \in Peers : outcome[p] = "ok"})
          /\ \A p \in Peers : ErrorsFor(p) = IF outcome[p] = "fail" THEN 1 ELSE 0

\* a finished cycle over two peers: one synced, one failed
C35_Witness ==
    /\ CycleDone
    /\ results.peers_found = 2
    /\ results.peers_synced = 1
    /\ Len(results.errors) = 1
    /\ fault[PeerA].reply \in FailingReplies

(***************************************************************************)
(* What get_own_data_since returns from a store that holds local reports   *)
(* and replicas of peers' reports (OwnDataSpec).                           *)
(***************************************************************************)
\* the node is up: get_my_node_id has cached the node's id, in the letter
\* case the platform gives it
OwnDataInit ==
    /\ SyncInit
    /\ saveLog = <<>>
    /\ act = [i \in {1, 2} |-> NoActivity]
    /\ SchedIdle
    /\ served = NotServed
    /\ disc = NoDiscovery
    /\ table_exists = TRUE
    /\ fault = NoFaults
    /\ wlog = NoLog
    /\ prov = NoProv
    /\ incoming = NoIncoming
    /\ target = NoTarget
    /\ caller = "none"
    /\ \E id \in {Me, OwnUpper} : ident = [NoIdent EXCEPT !._my_node_id = id]

\* POST /api/locations: node_id is the request's node_id or the node's id
LocalReport(node_id) ==
    /\ nextId <= MaxReports
    /\ store' = add_location(store, [id |-> MaxReports + nextId, node_id |-> node_id,
                                     created_at |-> clock]).rows
    /\ nextId' = nextId + 1
    /\ UNCHANGED <<clock, peerReports, sync_log, pc, todo, since, resp, results>>
    /\ UNCHANGED <<histVars, saveVars, schedVars, extVars>>

\* get_own_data_since(since) on this node
OwnDataSince(since_timestamp) ==
    /\ served' = [since |-> since_timestamp, until |-> NoPull, code |-> 0,
                  status |-> "returned",
                  data |-> get_own_data_since(store, ident._my_node_id, since_timestamp)]
    /\ UNCHANGED <<store, cycleVars, histVars, saveVars, schedVars,
                   disc, table_exists, fault, auxVars>>

OwnDataNext ==
    \/ Tick
    \/ \E p \in Peers : PeerRecord(p, clock)
    \/ \E order \in {<<PeerA>>, <<PeerB>>} : StartCycle(order)
    \/ PullAnswered
    \/ HandlePull
    \/ EndCycle
    \/ \E node_id \in {Me, OwnUpper} : LocalReport(node_id)
    \/ \E since_timestamp \in 0..1 : OwnDataSince(since_timestamp)

OwnDataSpec == OwnDataInit /\ [][OwnDataNext]_vars

\* C36: only locally originated reports are served: every report
\* get_own_data_since returns has a node_id equal, ignoring letter case, to
\* the serving node's id, and none of them is the replica of a report a
\* peer originated.
C36_OnlyOwnReportsServed ==
    served.status = "returned" =>
        \A i \in 1..Len(served.data) :
            /\ Lower(served.data[i].node_id) = Lower(ident._my_node_id)
            /\ \A p \in Peers : served.data[i] \notin peerReports[p]

\* the store holds a replica newer than since; the answer has a local
\* report found by the query that ignores letter case
C36_Witness ==
    /\ served.status = "returned"
    /\ Len(served.data) = 1
    /\ served.data[1].node_id # ident._my_node_id
    /\ served.data[1] \in store
    /\ \E r \in store : r \in peerReports[PeerA] /\ r.created_at > served.since

(***************************************************************************)
(* The addresses of a discovery result (DiscSpec).                         *)
(***************************************************************************)
\* C37: distinct peers get distinct addresses: no two entries of a peer map
\* get_all_peers returns have the same IP address.
C37_DistinctAddresses ==
    \A i, j \in 1..Len(disc.returned) :
        i # j => disc.returned[i].ip # disc.returned[j].ip

(***************************************************************************)
(* The scheduler with every call of start() and stop() recorded, also the  *)
(* calls that return without doing anything; the loop's steps and the      *)
(* passing of time are fair (RestartSpec).                                 *)
(***************************************************************************)
RestartFrame ==
    UNCHANGED <<store, cycleVars, histVars, saveVars, served, disc, table_exists,
                fault, wlog, ident, prov, incoming, target>>

\* start(): returns when disabled, returns when the thread is alive,
\* otherwise clears the event and creates the thread
StartCall ==
    /\ main = "idle"
    /\ (enabled /\ ~ThreadAlive) => Len(threads) < MaxStarts
    /\ IF enabled /\ ~ThreadAlive
       THEN /\ stop_event' = FALSE
            /\ threads' = Append(threads, NewThread)
       ELSE UNCHANGED <<stop_event, threads>>
    /\ caller' = IF caller = "stop" THEN "restarted" ELSE "started"
    /\ UNCHANGED <<enabled, main, joinAge, orphans>>
    /\ RestartFrame

\* stop(): sets the event and joins when the thread is alive, otherwise
\* reports that nothing is running
StopCall ==
    /\ main = "idle"
    /\ IF ThreadAlive
       THEN /\ stop_event' = TRUE
            /\ main' = "joining"
            /\ joinAge' = 0
       ELSE UNCHANGED <<stop_event, main, joinAge>>
    /\ caller' = "stop"
    /\ UNCHANGED <<enabled, threads, orphans>>
    /\ RestartFrame

LoopStep ==
    \/ \E i \in 1..Len(threads) : StartupDone(i)
    \/ \E i \in 1..Len(threads) : Trigger(i)
    \/ \E i \in 1..Len(threads) : LoopExit(i)
    \/ \E i \in 1..Len(threads) : TimedOut(i)

RestartNext ==
    \/ StartCall
    \/ StopCall
    \/ JoinReturns
    \/ LoopStep
    \/ \E i \in 1..Len(threads) : Answered(i)
    \/ OrphanEnds
    \/ Second

RestartSpec ==
    /\ SchedInit
    /\ [][RestartNext]_vars
    /\ WF_vars(JoinReturns)
    /\ WF_vars(LoopStep)
    /\ WF_vars(OrphanEnds)
    /\ WF_vars(Second)

\* C38: at most one background thread is alive in every state, whatever
\* calls of start() and stop() were made, and a call of start() on a
\* disabled scheduler leaves the threads as they are.
C38_AtMostOneThread ==
    /\ [](Cardinality(AliveThreads) <= 1)
    /\ [][ (caller' # caller /\ ~enabled) => threads' = threads ]_vars
    /\ [](~enabled => threads = <<>>)

\* start() after stop() created the second thread when the first had ended
C38_Witness ==
    /\ caller = "restarted"
    /\ Len(threads) = 2
    /\ ~Alive(threads[1]) /\ Alive(threads[2])

\* a request the loop has just sent
FreshTrigger == \E i \in 1..Len(threads) : threads[i].at = "post" /\ threads[i].t = 0

\* C39: restart works: once start() has returned after a stop() on an
\* enabled scheduler, the loop eventually sends a new trigger request
\* (unless stop() is called again first).
C39_RestartWorks ==
    (caller = "restarted" /\ enabled) ~> (FreshTrigger \/ caller # "restarted")

====
